---- MODULE Spec2Model ----
(***************************************************************************)
(* A model of nedbat/wikicrawl: the thread dispatcher of work.py and the   *)
(* paginated fetches, the tree builder and the page writer of crawl.py.    *)
(***************************************************************************)
EXTENDS Integers, Sequences, FiniteSets, Bags, TLC

(***************************************************************************)
(* Bounds of the model.                                                    *)
(***************************************************************************)
\* The longest item list handed to work_in_threads in WorkSpec.
MaxItems == 3
\* The largest max_workers tried in WorkSpec.
MaxWorkers == 2
\* PagesSpec: the size hint and the record count go up to this many half chunks.
MaxHintHalves == 6
MaxRecordHalves == 5
\* SpacesSpec: the most space records in one answer of the service, and the
\* most non-empty answers it gives to the sequential loop.
MaxChunkSpaces == 2
MaxTailChunks == 1
\* FetchSpec: the most pages the space holds.
MaxPages == 3
\* FetchSpec: the most calls of fetch_pages on the Space.
MaxFetchCalls == 2
\* RenderSpec: the most pages of the tree that write_page is called on.
MaxTreePages == 4

VARIABLES
    \* ---- work_in_threads (work.py:21-37) ----
    seq,             \* the items, in submission order
    max_workers,     \* the pool's max_workers
    future_to_item,  \* the item of each future submitted so far (a future is its index)
    futures,         \* each future's [state, exc, result]
    num_threads,     \* worker threads the executor has started
    work_queue,      \* the executor's queue of futures not yet picked up
    finished_first,  \* as_completed's snapshot of the futures already finished
    waiter,          \* as_completed's waiter: futures finished since, in order
    completed,       \* history: the futures in the order their invocation completed
    handled,         \* history: the futures in the order the loop of line 32 got them
    yielded,         \* history: the pairs yielded, each [fut, item, result]
    messages,        \* the futures write_message was called for
    wpc,             \* where the generator is: idle, submit, iterate, done, raised
    \* ---- Space.get_api_pages (crawl.py:209-230), get_api_spaces (crawl.py:319-345) ----
    size,            \* Space.size, the advisory size hint (num_guess for the spaces)
    type,            \* the type argument: "page" or "blogpost" ("space" for the spaces)
    num_records,     \* how many records the service holds for the container
    starts,          \* the start offsets of the parallel phase
    start,           \* the local start of the sequential loop
    emitted,         \* history: what the generator yielded, chunk by chunk
    requests,        \* history: the chunk requests made, each [phase, start, ok, len]
    gpc,             \* where the generator is: idle, begin, parallel, tail, done, raised
    seen,            \* get_api_spaces: the set of space ids yielded (crawl.py:321)
    \* ---- Space.fetch_pages (crawl.py:176-196) ----
    api_pages,       \* what get_api_pages() yields for the space: [id, status, parent_id]
    api_blogs,       \* what get_api_pages(type="blogpost") yields
    all_pages,       \* Space.all_pages: None, or the Page objects (a Page is its index)
    pages,           \* Space.pages: None, or the current Pages
    blog_posts,      \* Space.blog_posts: None, or the blog posts
    pages_by_id,     \* the local index id -> Page
    parent,          \* Page.parent of every Page (0 is None)
    children,        \* Page.children of every Page
    no_parent,       \* the Pages the "No parent for page" message was written for
    error,           \* the exception that left fetch_pages, "none" if none did
    fpc,             \* where fetch_pages is: idle, ready, begin, linking, done, raised
    fetch_calls,     \* history: how many times fetch_pages was called
    api_calls,       \* history: how many get_api_pages and fetch_page_information
                     \* calls fetch_pages has made
    \* ---- write_page (crawl.py:348-402) ----
    restrictions,    \* whether Page.restrictions is set (not None), for every Page
    title_key,       \* the rank of scrub_title(page.title), for every Page
    arg_page,        \* the page argument of the outermost call
    arg_parent_restricted,  \* its parent_restricted argument
    stack,           \* the calls of write_page in progress, innermost last
    out,             \* history: the calls made on the writer
    returned,        \* what the outermost call returned (-1 before it has)
    rpc,             \* where the rendering is: idle, ready, writing, done
    \* ---- Page.fetch_page_information (crawl.py:118-143) ----
    page_id,         \* self.id (0 is None)
    retry,           \* how many turns the loop of line 124 has taken
    tries,           \* history: the answers to the restriction requests made
    page_restrictions,  \* self.restrictions
    has_token,       \* whether keys has a CLOUD_SESSION_COOKIE_TOKEN
    page_visits,     \* self.visits (-1 is None)
    qerror,          \* error: the status of the HTTPError kept (0 is None)
    qpc,             \* where the method is: idle, ready, requesting, answered,
                     \* done, raised (the HTTPError kept), raised_other
    \* ---- HtmlOutlineWriter (htmlwriter.py:87-119) ----
    section_ids,     \* self.section_ids: the number the counter gives next
    fout,            \* self.fout: what has been written, one entry per write
    \* ---- the permission columns of a space's row (crawl.py:535-539) ----
    permissions,     \* space.permissions: the permission records of the space
    anon,            \* anon
    logged,          \* logged
    summary,         \* PERM_SHORTHANDS[(anon, logged)]
    ppc,             \* where the row is: idle, ready, anon, logged, done
    \* ---- main, generate_all_space_pages, generate_space_page ----
    g_mode,          \* main's branch: "all" (--all) or "keys" (space keys given)
    do_pages,        \* the do_pages argument (--pages/--no-pages)
    counts,          \* for every space key, the pages plus blog posts the service holds
    has_links,       \* for every space key, whether some page of it has a parent
    sizes_file,      \* space_sizes.json: a function from keys to sizes
    space_sizes,     \* space_sizes, the dict in memory
    g_spaces,        \* spaces: the keys, in list order
    space_size,      \* Space.size of every space of g_spaces
    fetched,         \* the keys of the spaces whose fetch_pages has returned
    writes,          \* history: who wrote what of which space's pages
    num_restricteds, \* the keys of num_restricteds
    persisted,       \* whether this run has written space_sizes.json
    reported,        \* the keys of the spaces whose row of spaces.html is written
    g_error,         \* the exception that left main, "none" if none did
    gapc,            \* where main is: idle, start, reading, persist, index, keys,
                     \* raised
    \* ---- Space.admins (crawl.py:256-264) ----
    admin_perms,     \* self.permissions: the permission records of the space
    admins,          \* what admins() returned
    apc,             \* where the call is: idle, ready, done
    \* ---- the pools of Space.get_api_pages (crawl.py:219-222) ----
    pools            \* size hint -> max_workers of the pool made for it, for the
                     \* calls made so far

workVars == <<seq, max_workers, future_to_item, futures, num_threads, work_queue,
              finished_first, waiter, completed, handled, yielded, messages, wpc>>

pageVars == <<size, type, num_records, starts, start, emitted, requests, gpc, seen>>

spaceVars == <<api_pages, api_blogs, all_pages, pages, blog_posts, pages_by_id,
               no_parent, error, fpc, fetch_calls, api_calls>>
treeVars == <<parent, children>>
fetchVars == <<spaceVars, treeVars>>

renderVars == <<restrictions, title_key, arg_page, arg_parent_restricted, stack, out,
                returned, rpc>>

retryVars == <<page_id, retry, tries, page_restrictions, has_token, page_visits,
               qerror, qpc>>

writerVars == <<section_ids, fout>>

\* The parts of the program modelled after the five above.
permVars == <<permissions, anon, logged, summary, ppc>>
genVars == <<g_mode, do_pages, counts, has_links, sizes_file, space_sizes, g_spaces,
             space_size, fetched, writes, num_restricteds, persisted, reported, g_error,
             gapc>>
adminVars == <<admin_perms, admins, apc>>
poolVars == <<pools>>
lateVars == <<writerVars, permVars, genVars, adminVars, poolVars>>

vars == <<workVars, pageVars, fetchVars, renderVars, retryVars, lateVars>>

\* The variables that the steps of one part of the program leave alone.
restOfWork == <<pageVars, fetchVars, renderVars, retryVars, lateVars>>
restOfPages == <<fetchVars, renderVars, retryVars, lateVars>>
restOfFetch == <<pageVars, renderVars, retryVars, lateVars>>
restOfRender == <<workVars, pageVars, spaceVars, retryVars, lateVars>>
restOfRetry == <<workVars, pageVars, fetchVars, renderVars, lateVars>>
earlyVars == <<workVars, pageVars, fetchVars, renderVars, retryVars>>
restOfWriter == <<earlyVars, permVars, genVars, adminVars, poolVars>>
restOfPerm == <<earlyVars, writerVars, genVars, adminVars, poolVars>>
restOfGen == <<pageVars, fetchVars, renderVars, retryVars, writerVars, permVars,
               adminVars, poolVars>>
restOfAdmin == <<earlyVars, writerVars, permVars, genVars, poolVars>>
restOfPool == <<earlyVars, writerVars, permVars, genVars, adminVars>>

\* PoolSpec: the greatest number tried as the constant no worker count exceeds,
\* and the most chunks of a size hint.
MaxPoolCap == 3
MaxPoolChunks == 3 * MaxPoolCap
\* AdminSpec: the most permission records of the space.
MaxAdminPerms == 3
\* GenSpec: the most spaces of the wiki.
MaxSpaces == 2
\* PermSpec: the most permission records of the space.
MaxPerms == 2
\* WriterSpec: the writes after which the writer is called no more.
MaxWrites == 5

(***************************************************************************)
(* Helpers.                                                                *)
(***************************************************************************)
Range(s) == {s[i] : i \in 1..Len(s)}

\* The position of x in the sequence s (0 when absent).
IndexOf(s, x) == IF \E i \in 1..Len(s) : s[i] = x
                 THEN CHOOSE i \in 1..Len(s) : s[i] = x /\ \A j \in 1..(i-1) : s[j] # x
                 ELSE 0

Min(a, b) == IF a < b THEN a ELSE b

\* All sequences over S of length at most n.
SeqsUpTo(S, n) == UNION {[1..k -> S] : k \in 0..n}

\* The bag of the elements of a sequence.
RECURSIVE BagOfSeq(_)
BagOfSeq(s) == IF s = <<>> THEN EmptyBag
               ELSE BagOfSeq(Tail(s)) (+) SetToBag({Head(s)})

(***************************************************************************)
(* crawl.py: Space.__init__ (lines 158-168) and Page.__init__ (85-87)      *)
(***************************************************************************)
\* An attribute that is None, or that holds a list.
None == [is_none |-> TRUE, list |-> <<>>]
Some(l) == [is_none |-> FALSE, list |-> l]

FetchIdle ==
    /\ api_pages = <<>>
    /\ api_blogs = <<>>
    /\ all_pages = None
    /\ pages = None
    /\ blog_posts = None
    /\ pages_by_id = <<>>
    /\ parent = <<>>
    /\ children = <<>>
    /\ no_parent = {}
    /\ error = "none"
    /\ fpc = "idle"
    /\ fetch_calls = 0
    /\ api_calls = 0

\* work_in_threads, get_api_pages and get_api_spaces before they are called.
WorkIdle ==
    /\ seq = <<>>
    /\ max_workers = 0
    /\ future_to_item = <<>>
    /\ futures = <<>>
    /\ num_threads = 0
    /\ work_queue = <<>>
    /\ finished_first = {}
    /\ waiter = <<>>
    /\ completed = <<>>
    /\ handled = <<>>
    /\ yielded = <<>>
    /\ messages = {}
    /\ wpc = "idle"

PagesIdle ==
    /\ size = 0
    /\ type = "none"
    /\ num_records = 0
    /\ starts = <<>>
    /\ start = 0
    /\ emitted = <<>>
    /\ requests = <<>>
    /\ gpc = "idle"
    /\ seen = {}

\* No write_page call is in progress.
RenderIdle ==
    /\ restrictions = <<>>
    /\ title_key = <<>>
    /\ arg_page = 0
    /\ arg_parent_restricted = FALSE
    /\ stack = <<>>
    /\ out = <<>>
    /\ returned = -1
    /\ rpc = "idle"

\* No fetch_page_information call is in progress.
NoRestrictions == [is_none |-> TRUE, groups |-> <<>>, users |-> <<>>]

RetryIdle ==
    /\ page_id = 0
    /\ retry = 0
    /\ tries = <<>>
    /\ page_restrictions = NoRestrictions
    /\ has_token = FALSE
    /\ page_visits = -1
    /\ qerror = 0
    /\ qpc = "idle"

\* No HtmlOutlineWriter has been made.
WriterIdle ==
    /\ section_ids = 0
    /\ fout = <<>>

\* No row of the index is being written.
PermIdle ==
    /\ permissions = <<>>
    /\ anon = FALSE
    /\ logged = FALSE
    /\ summary = ""
    /\ ppc = "idle"

\* main has not been called.
GenIdle ==
    /\ g_mode = "none"
    /\ do_pages = FALSE
    /\ counts = <<>>
    /\ has_links = <<>>
    /\ sizes_file = <<>>
    /\ space_sizes = <<>>
    /\ g_spaces = <<>>
    /\ space_size = <<>>
    /\ fetched = {}
    /\ writes = {}
    /\ num_restricteds = {}
    /\ persisted = FALSE
    /\ reported = {}
    /\ g_error = "none"
    /\ gapc = "idle"

\* admins has not been called.
AdminIdle ==
    /\ admin_perms = <<>>
    /\ admins = <<>>
    /\ apc = "idle"

\* get_api_pages has made no pool.
PoolIdle == pools = <<>>

LateIdle == WriterIdle /\ PermIdle /\ GenIdle /\ AdminIdle /\ PoolIdle

EarlyIdle == WorkIdle /\ PagesIdle /\ FetchIdle /\ RenderIdle /\ RetryIdle

RestIdle == RenderIdle /\ RetryIdle /\ LateIdle

(***************************************************************************)
(* work.py: work_in_threads                                                *)
(***************************************************************************)
Running == {f \in 1..Len(futures) : futures[f].state = "RUNNING"}
Finished == {f \in 1..Len(futures) : futures[f].state = "FINISHED"}

NewFuture == [state |-> "PENDING", exc |-> FALSE, result |-> <<>>]

\* ThreadPoolExecutor(max_workers=...) starts a thread per submit while it has
\* fewer than max_workers.
AdjustNoLimit(n, limit) == n + 1
AdjustThreadCount(n, limit) == IF n < limit THEN n + 1 ELSE n

\* work_in_threads is a generator: its body starts at the first next().
WorkBegin(items, workers) ==
    /\ seq' = items
    /\ max_workers' = workers
    /\ future_to_item' = <<>>
    /\ futures' = <<>>
    /\ num_threads' = 0
    /\ work_queue' = <<>>
    /\ finished_first' = {}
    /\ waiter' = <<>>
    /\ completed' = <<>>
    /\ handled' = <<>>
    /\ yielded' = <<>>
    /\ messages' = {}
    /\ wpc' = "submit"

\* line 31: executor.submit(fn, item) for the next item of seq.
Submit ==
    /\ wpc = "submit"
    /\ Len(future_to_item) < Len(seq)
    /\ future_to_item' = Append(future_to_item, seq[Len(future_to_item) + 1])
    /\ futures' = Append(futures, NewFuture)
    /\ work_queue' = Append(work_queue, Len(futures) + 1)
    /\ num_threads' = AdjustThreadCount(num_threads, max_workers)
    /\ UNCHANGED <<seq, max_workers, finished_first, waiter, completed, handled,
                   yielded, messages, wpc>>

\* A worker thread that is not running an item takes the next one of the queue.
StartWork ==
    /\ work_queue # <<>>
    /\ Cardinality(Running) < num_threads
    /\ futures' = [futures EXCEPT ![Head(work_queue)].state = "RUNNING"]
    /\ work_queue' = Tail(work_queue)
    /\ UNCHANGED <<seq, max_workers, future_to_item, num_threads, finished_first,
                   waiter, completed, handled, yielded, messages, wpc>>

\* The invocation fn(item) of future f ends: it returned result, or it raised.
\* A future that finishes once as_completed waits is added to its waiter.
FinishWork(f, raised, result) ==
    /\ f \in Running
    /\ futures' = [futures EXCEPT ![f] =
                     [state |-> "FINISHED", exc |-> raised,
                      result |-> IF raised THEN <<>> ELSE result]]
    /\ completed' = Append(completed, f)
    /\ waiter' = IF wpc = "iterate" THEN Append(waiter, f) ELSE waiter
    /\ UNCHANGED <<seq, max_workers, future_to_item, num_threads, work_queue,
                   finished_first, handled, yielded, messages, wpc>>

\* line 32: as_completed(future_to_item) is called once every item is submitted;
\* it snapshots the futures that are finished already and installs its waiter.
AsCompleted ==
    /\ wpc = "submit"
    /\ Len(future_to_item) = Len(seq)
    /\ finished_first' = Finished
    /\ wpc' = "iterate"
    /\ UNCHANGED <<seq, max_workers, future_to_item, futures, num_threads,
                   work_queue, waiter, completed, handled, yielded, messages>>

\* The futures as_completed may hand out next: any of the snapshot, which is a
\* set, while some of it is left; then the waiter's, oldest first.
WaiterNewestFirst == IF finished_first \ Range(handled) # {}
                     THEN finished_first \ Range(handled)
                     ELSE IF waiter # <<>> THEN {waiter[Len(waiter)]} ELSE {}
NextCompleted == IF finished_first \ Range(handled) # {}
                 THEN finished_first \ Range(handled)
                 ELSE IF waiter # <<>> THEN {Head(waiter)} ELSE {}

\* lines 33-37, what the loop body does with future f: "skip" (log, continue),
\* "yield" the pair, or "raise" when future.result() is called on a failed future.
HandleNoCheck(f) == IF futures[f].exc THEN "raise" ELSE "yield"
HandleFuture(f) == IF futures[f].exc THEN "skip" ELSE "yield"

\* work_in_threads with its steps taken together, for the callers whose
\* properties do not rest on how the pool interleaves: line 31 submits every
\* item, and then, one future at a time and in any order, fn(item) runs to its
\* end and the loop of lines 32-37 receives the future.
WorkBeginAll(items, workers) ==
    /\ seq' = items
    /\ max_workers' = workers
    /\ future_to_item' = items
    /\ futures' = [f \in 1..Len(items) |-> NewFuture]
    /\ num_threads' = Min(Len(items), workers)
    /\ work_queue' = [f \in 1..Len(items) |-> f]
    /\ finished_first' = {}
    /\ waiter' = <<>>
    /\ completed' = <<>>
    /\ handled' = <<>>
    /\ yielded' = <<>>
    /\ messages' = {}
    /\ wpc' = "iterate"

WorkDeliver(f, raised, result) ==
    /\ wpc = "iterate"
    /\ f \in 1..Len(futures)
    /\ futures[f].state = "PENDING"
    /\ futures' = [futures EXCEPT ![f] =
                     [state |-> "FINISHED", exc |-> raised,
                      result |-> IF raised THEN <<>> ELSE result]]
    /\ work_queue' = SelectSeq(work_queue, LAMBDA g : g # f)
    /\ completed' = Append(completed, f)
    /\ handled' = Append(handled, f)
    /\ yielded' = IF raised THEN yielded
                  ELSE Append(yielded, [fut |-> f, item |-> future_to_item[f],
                                        result |-> result])
    /\ messages' = IF raised THEN messages \cup {f} ELSE messages
    /\ UNCHANGED <<seq, max_workers, future_to_item, num_threads, finished_first,
                   waiter, wpc>>

\* The pair yielded for future f (lines 36-37).
PairOf(f) == [fut |-> f, item |-> future_to_item[f], result |-> futures[f].result]

\* One iteration of the for loop of line 32 over future f.
LoopFuture(f) ==
    /\ wpc = "iterate"
    /\ f \in NextCompleted
    /\ handled' = Append(handled, f)
    /\ waiter' = SelectSeq(waiter, LAMBDA g : g # f)
    /\ yielded' = IF HandleFuture(f) = "yield" THEN Append(yielded, PairOf(f))
                  ELSE yielded
    /\ messages' = IF HandleFuture(f) = "skip" THEN messages \cup {f} ELSE messages
    /\ wpc' = IF HandleFuture(f) = "raise" THEN "raised" ELSE wpc
    /\ UNCHANGED <<seq, max_workers, future_to_item, futures, num_threads,
                   work_queue, finished_first, completed>>

\* as_completed is exhausted: the with block ends (shutdown finds nothing left).
WorkEnd ==
    /\ wpc = "iterate"
    /\ Len(handled) = Len(seq)
    /\ wpc' = "done"
    /\ UNCHANGED <<seq, max_workers, future_to_item, futures, num_threads,
                   work_queue, finished_first, waiter, completed, handled, yielded,
                   messages>>

\* What leaving the with block of line 30 does to the executor's queue:
\* shutdown(wait=True) cancels nothing, the items still queued are run.
ShutdownCancels(q) == <<>>
ShutdownQueue(q) == q

\* The consumer stops iterating: the generator, suspended at the yield of line
\* 37, is closed, and the with block of line 30 is left by shutdown(wait=True).
WorkStop ==
    /\ wpc = "iterate"
    /\ yielded # <<>>
    /\ Len(handled) < Len(seq)
    /\ work_queue' = ShutdownQueue(work_queue)
    /\ wpc' = "closing"
    /\ UNCHANGED <<seq, max_workers, future_to_item, futures, num_threads,
                   finished_first, waiter, completed, handled, yielded, messages>>

\* shutdown(wait=True) returns once the worker threads have ended, which they
\* do when the queue is empty and nothing is running.
WorkShutdown ==
    /\ wpc = "closing"
    /\ work_queue = <<>>
    /\ Running = {}
    /\ wpc' = "closed"
    /\ UNCHANGED <<seq, max_workers, future_to_item, futures, num_threads,
                   work_queue, finished_first, waiter, completed, handled, yielded,
                   messages>>

(***************************************************************************)
(* crawl.py: Space.get_api_pages_chunk and Space.get_api_pages             *)
(***************************************************************************)
\* crawl.py:211, and the limit of the request of crawl.py:204.
chunk_size == 100

\* range(0, stop, step) as a sequence.
RangeList(stop, step) == [i \in 1..((stop + step - 1) \div step) |-> (i - 1) * step]

\* The service holds the records 0 .. num_records-1 of the container. A request
\* for limit records from offset s answers with the records from s on: as many
\* as are left, up to limit, or up to a smaller page size of its own.
ChunkLens(s, limit) ==
    IF s >= num_records THEN {0}
    ELSE {Min(c, num_records - s) : c \in {limit, limit \div 2}}

\* A chunk of the service: the records first .. first+len-1, in that order.
Content(s, k) == [first |-> s, len |-> k]
RecordsOf(c) == c.first .. (c.first + c.len - 1)

\* crawl.py:222, the workers of the parallel phase.
PagesWorkers(sz) == (sz \div 300) + 1

\* crawl.py:224, where the sequential loop starts after the parallel phase.
TailStartAtLast(sts, step) == sts[Len(sts)]
TailStart(sts, step) == sts[Len(sts)] + step

\* lines 213-222: start = 0, and for pages with a non-empty list of starts the
\* chunks of the size hint are handed to work_in_threads.
PagesBegin ==
    /\ gpc = "begin"
    /\ start' = 0
    /\ LET sts == RangeList(size, chunk_size) IN
         IF type = "page" /\ sts # <<>>
         THEN /\ starts' = sts
              /\ WorkBegin(sts, PagesWorkers(size))
              /\ gpc' = "parallel"
         ELSE /\ starts' = IF type = "page" THEN sts ELSE <<>>
              /\ UNCHANGED workVars
              /\ gpc' = "tail"
    /\ UNCHANGED <<size, type, num_records, emitted, requests, seen>>

\* The dispatcher's own steps during the parallel phase.
PagesSubmit == gpc = "parallel" /\ Submit /\ UNCHANGED pageVars
PagesStartWork == gpc = "parallel" /\ StartWork /\ UNCHANGED pageVars
PagesAsCompleted == gpc = "parallel" /\ AsCompleted /\ UNCHANGED pageVars

\* get_api_pages_chunk(start) on a worker thread: the request fails with an HTTP
\* error (reported and re-raised, lines 199-200 and work.py:15-18), or it
\* answers with a chunk.
PagesChunkDone ==
    \E f \in Running :
      \/ /\ FinishWork(f, TRUE, <<>>)
         /\ requests' = Append(requests, [phase |-> "parallel", start |-> future_to_item[f],
                                          ok |-> FALSE, len |-> 0])
         /\ gpc = "parallel"
         /\ UNCHANGED <<size, type, num_records, starts, start, emitted, gpc, seen>>
      \/ \E k \in ChunkLens(future_to_item[f], chunk_size) :
         /\ FinishWork(f, FALSE, Content(future_to_item[f], k))
         /\ requests' = Append(requests, [phase |-> "parallel", start |-> future_to_item[f],
                                          ok |-> TRUE, len |-> k])
         /\ gpc = "parallel"
         /\ UNCHANGED <<size, type, num_records, starts, start, emitted, gpc, seen>>

\* lines 222-223: one pair of work_in_threads, whose content handle_content yields.
PagesLoop ==
    \E f \in NextCompleted :
      /\ gpc = "parallel"
      /\ LoopFuture(f)
      /\ emitted' = IF HandleFuture(f) = "yield"
                    THEN Append(emitted, futures[f].result) ELSE emitted
      /\ gpc' = IF HandleFuture(f) = "raise" THEN "raised" ELSE gpc
      /\ UNCHANGED <<size, type, num_records, starts, start, requests, seen>>

\* line 224: the parallel phase is over.
PagesParallelEnd ==
    /\ gpc = "parallel"
    /\ WorkEnd
    /\ start' = TailStart(starts, chunk_size)
    /\ gpc' = "tail"
    /\ UNCHANGED <<size, type, num_records, starts, emitted, requests, seen>>

\* What the sequential loop does with an answered chunk of k records (lines
\* 227-230): "break" on an empty one, else yield it and go on.
TailStopsNever(k) == "yield"
TailStep(k) == IF k = 0 THEN "break" ELSE "yield"

\* What a failed request does to the sequential loop: the error of line 226
\* propagates out of the generator.
TailSwallowsError == "tail"
TailOnError == "raised"

\* lines 225-230: one turn of the sequential loop.
PagesTail ==
    /\ gpc = "tail"
    /\ \/ /\ requests' = Append(requests, [phase |-> "tail", start |-> start,
                                           ok |-> FALSE, len |-> 0])
          /\ gpc' = TailOnError
          /\ UNCHANGED <<start, emitted>>
       \/ \E k \in ChunkLens(start, chunk_size) :
          /\ requests' = Append(requests, [phase |-> "tail", start |-> start,
                                           ok |-> TRUE, len |-> k])
          /\ IF TailStep(k) = "break"
             THEN gpc' = "done" /\ UNCHANGED <<start, emitted>>
             ELSE /\ emitted' = Append(emitted, Content(start, k))
                  /\ start' = start + k
                  /\ gpc' = "tail"
    /\ UNCHANGED <<size, type, num_records, starts, seen>>
    /\ UNCHANGED workVars

(***************************************************************************)
(* PagesSpec: one call of get_api_pages, for pages or blog posts, over     *)
(* size hints and record counts that are multiples of half a chunk (and    *)
(* the default hint, 1).                                                   *)
(***************************************************************************)
HalfChunk == chunk_size \div 2

PagesInit ==
    /\ size \in {h * HalfChunk : h \in 0..MaxHintHalves} \cup {1}
    /\ type \in {"page", "blogpost"}
    /\ num_records \in {r * HalfChunk : r \in 0..MaxRecordHalves}
    /\ starts = <<>>
    /\ start = 0
    /\ emitted = <<>>
    /\ requests = <<>>
    /\ gpc = "begin"
    /\ seen = {}
    /\ WorkIdle
    /\ FetchIdle
    /\ RestIdle

PagesNext ==
    \/ PagesBegin /\ UNCHANGED restOfPages
    \/ PagesSubmit /\ UNCHANGED restOfPages
    \/ PagesStartWork /\ UNCHANGED restOfPages
    \/ PagesAsCompleted /\ UNCHANGED restOfPages
    \/ PagesChunkDone /\ UNCHANGED restOfPages
    \/ PagesLoop /\ UNCHANGED restOfPages
    \/ PagesParallelEnd /\ UNCHANGED restOfPages
    \/ PagesTail /\ UNCHANGED restOfPages

PagesSpec == PagesInit /\ [][PagesNext]_vars

\* How often record r was yielded.
TimesEmitted(r) == Cardinality({i \in 1..Len(emitted) : r \in RecordsOf(emitted[i])})

AllRequestsOk == \A i \in 1..Len(requests) : requests[i].ok

\* C2 as claimed: when every chunk request succeeded, a finished get_api_pages
\* has yielded every record of the container exactly once and nothing else,
\* whatever the size hint (parallel phase engaged or not) and however the
\* service cut the data into chunks.
C2_EveryRecordOnce ==
    (gpc = "done" /\ AllRequestsOk) =>
        /\ \A r \in 0..(num_records - 1) : TimesEmitted(r) = 1
        /\ \A i \in 1..Len(emitted) : RecordsOf(emitted[i]) \subseteq 0..(num_records - 1)

\* C7: in get_api_pages a failed chunk request of the parallel phase costs only
\* that chunk, and a failed request of the sequential loop ends the generator
\* with the error. The generator is in its raised state exactly when the last
\* request made was a failed request of the sequential loop, and no request
\* follows one; no failure of the parallel phase escapes work_in_threads; once
\* the parallel phase is over, the chunk of every parallel request that
\* succeeded has been yielded; and a generator that came to its end has run
\* the sequential loop, which made at least one request.
C7_FailureScope ==
    /\ wpc # "raised"
    /\ gpc = "raised" <=>
         (requests # <<>> /\ requests[Len(requests)].phase = "tail"
                          /\ ~requests[Len(requests)].ok)
    /\ \A i \in 1..Len(requests) :
         (requests[i].phase = "tail" /\ ~requests[i].ok) => i = Len(requests)
    /\ gpc \in {"tail", "done", "raised"} =>
         \A i \in 1..Len(requests) :
           (requests[i].phase = "parallel" /\ requests[i].ok) =>
              \E j \in 1..Len(emitted) :
                 emitted[j] = Content(requests[i].start, requests[i].len)
    /\ gpc = "done" =>
         /\ requests # <<>>
         /\ requests[Len(requests)] =
              [phase |-> "tail", start |-> start, ok |-> TRUE, len |-> 0]

\* C7's case: a parallel request failed, another one's records were yielded all
\* the same, and the sequential loop ran after them until one of its own
\* requests failed.
C7_Witness ==
    /\ gpc = "raised"
    /\ \E i, j, k \in 1..Len(requests) :
         /\ requests[i].phase = "parallel" /\ ~requests[i].ok
         /\ requests[j].phase = "parallel" /\ requests[j].ok /\ requests[j].len > 0
         /\ requests[k].phase = "tail" /\ requests[k].ok /\ requests[k].len > 0
         /\ \E m \in 1..Len(emitted) : emitted[m] = Content(requests[j].start, requests[j].len)

\* PagesSpec with the scheduling the program has: a worker thread that can
\* run runs, a request is answered or fails, and the generator's consumer
\* keeps asking for records.
PagesFairSpec == PagesSpec /\ WF_vars(PagesNext)

TailRequests == {i \in 1..Len(requests) : requests[i].phase = "tail"}

\* The requests of the sequential loop: each but the last was answered with a
\* chunk that was not empty, and the next one asks from where that chunk ended;
\* an empty answer ends the generator.
TailShape ==
    /\ \A i \in TailRequests :
         i < Len(requests) =>
           /\ requests[i].ok /\ requests[i].len > 0
           /\ requests[i + 1].phase = "tail"
           /\ requests[i + 1].start = requests[i].start + requests[i].len
    /\ \A i \in TailRequests :
         (requests[i].ok /\ requests[i].len = 0) => gpc = "done"
    /\ gpc = "raised" => ~AllRequestsOk

\* C16: get_api_pages comes to its end for every container and size hint of
\* the model, and to its normal end unless a request failed; the sequential
\* loop asks for one chunk after the other, each from where the last one
\* ended, and asks for nothing after the first empty chunk.
C16_TailTerminates == []TailShape /\ <>(gpc \in {"done", "raised"})

\* C16's case: every request succeeded, the sequential loop got a short chunk,
\* went on from its end, got an empty chunk and stopped.
C16_Witness ==
    /\ gpc = "done"
    /\ AllRequestsOk
    /\ \E i \in TailRequests :
         /\ requests[i].len = HalfChunk
         /\ i + 1 = Len(requests)
         /\ requests[i + 1].start = requests[i].start + HalfChunk
         /\ requests[i + 1].len = 0

(***************************************************************************)
(* crawl.py: get_api_spaces_chunk and get_api_spaces                       *)
(***************************************************************************)
\* crawl.py:325, and the limit of the requests of crawl.py:317 and 341.
spaces_chunk_size == 10

\* The ids of the spaces the service knows.
SpaceIds == {1, 2}

\* An answer of the service to the request at offset s: its 'results', a list
\* of space records, repeats included. A record is its id and the place it
\* came from (the request's offset and its position in the answer), which
\* tells two records of one id apart.
SpaceAnswers(s) ==
    {[i \in 1..Len(ids) |-> [id |-> ids[i], at |-> <<s, i>>]] :
        ids \in SeqsUpTo(SpaceIds, MaxChunkSpaces)}

\* The seen set handle_spaces works with: the one of the whole invocation.
SeenPerChunk(seenSet) == {}
SeenForChunk(seenSet) == seenSet

\* lines 327-331, handle_spaces over the 'results' of one answer: the records
\* yielded, and the seen set afterwards.
RECURSIVE HandleSpacesFrom(_, _)
HandleSpacesFrom(results, seenSet) ==
    IF results = <<>> THEN [out |-> <<>>, seen |-> seenSet]
    ELSE IF Head(results).id \notin seenSet
         THEN LET rest == HandleSpacesFrom(Tail(results), seenSet \cup {Head(results).id})
              IN [out |-> <<Head(results)>> \o rest.out, seen |-> rest.seen]
         ELSE HandleSpacesFrom(Tail(results), seenSet)

handle_spaces(results, seenSet) ==
    LET got == HandleSpacesFrom(results, SeenForChunk(seenSet))
    IN [out |-> got.out, seen |-> seenSet \cup got.seen]

\* lines 321-336: seen = set(), start = 0, and the chunks of num_guess are
\* handed to work_in_threads (8 workers) when there are any.
SpacesBegin ==
    /\ gpc = "begin"
    /\ start' = 0
    /\ seen' = {}
    /\ LET sts == RangeList(size, spaces_chunk_size) IN
         /\ starts' = sts
         /\ IF sts # <<>>
            THEN WorkBegin(sts, 8) /\ gpc' = "parallel"
            ELSE UNCHANGED workVars /\ gpc' = "tail"
    /\ UNCHANGED <<size, type, num_records, emitted, requests>>

\* get_api_spaces_chunk(start) on a worker thread (lines 315-317): an HTTP
\* error, or an answer.
SpacesChunkDone ==
    \E f \in Running :
      /\ gpc = "parallel"
      /\ \/ /\ FinishWork(f, TRUE, <<>>)
            /\ requests' = Append(requests, [phase |-> "parallel", start |-> future_to_item[f],
                                             ok |-> FALSE, results |-> <<>>])
         \/ \E res \in SpaceAnswers(future_to_item[f]) :
            /\ FinishWork(f, FALSE, res)
            /\ requests' = Append(requests, [phase |-> "parallel", start |-> future_to_item[f],
                                             ok |-> TRUE, results |-> res])
      /\ UNCHANGED <<size, type, num_records, starts, start, emitted, gpc, seen>>

\* lines 336-337: one pair of work_in_threads goes through handle_spaces.
SpacesLoop ==
    \E f \in NextCompleted :
      /\ gpc = "parallel"
      /\ LoopFuture(f)
      /\ IF HandleFuture(f) = "yield"
         THEN /\ emitted' = emitted \o handle_spaces(futures[f].result, seen).out
              /\ seen' = handle_spaces(futures[f].result, seen).seen
         ELSE UNCHANGED <<emitted, seen>>
      /\ gpc' = IF HandleFuture(f) = "raise" THEN "raised" ELSE gpc
      /\ UNCHANGED <<size, type, num_records, starts, start, requests>>

\* line 338: the parallel phase is over.
SpacesParallelEnd ==
    /\ gpc = "parallel"
    /\ WorkEnd
    /\ start' = TailStart(starts, spaces_chunk_size)
    /\ gpc' = "tail"
    /\ UNCHANGED <<size, type, num_records, starts, emitted, requests, seen>>

\* The non-empty answers the sequential loop has had.
TailAnswers == Cardinality({i \in 1..Len(requests) :
                  requests[i].phase = "tail" /\ requests[i].results # <<>>})

\* lines 339-345: one turn of the sequential loop. The service has no more to
\* give after MaxTailChunks non-empty answers.
SpacesTail ==
    /\ gpc = "tail"
    /\ \/ /\ requests' = Append(requests, [phase |-> "tail", start |-> start,
                                           ok |-> FALSE, results |-> <<>>])
          /\ gpc' = "raised"
          /\ UNCHANGED <<start, emitted, seen>>
       \/ \E res \in SpaceAnswers(start) :
          /\ TailAnswers >= MaxTailChunks => res = <<>>
          /\ requests' = Append(requests, [phase |-> "tail", start |-> start,
                                           ok |-> TRUE, results |-> res])
          /\ IF Len(res) = 0
             THEN gpc' = "done" /\ UNCHANGED <<start, emitted, seen>>
             ELSE /\ emitted' = emitted \o handle_spaces(res, seen).out
                  /\ seen' = handle_spaces(res, seen).seen
                  /\ start' = start + Len(res)
                  /\ gpc' = "tail"
    /\ UNCHANGED <<size, type, num_records, starts>>
    /\ UNCHANGED workVars

(***************************************************************************)
(* SpacesSpec: one call of get_api_spaces, with no, one or two chunks in   *)
(* the parallel phase, against a service that may repeat any space.        *)
(***************************************************************************)
SpacesInit ==
    /\ size \in {0, 1, spaces_chunk_size + 1}
    /\ type = "space"
    /\ num_records = 0
    /\ starts = <<>>
    /\ start = 0
    /\ emitted = <<>>
    /\ requests = <<>>
    /\ gpc = "begin"
    /\ seen = {}
    /\ WorkIdle
    /\ FetchIdle
    /\ RestIdle

SpacesNext ==
    \/ SpacesBegin /\ UNCHANGED restOfPages
    \/ PagesSubmit /\ UNCHANGED restOfPages
    \/ PagesStartWork /\ UNCHANGED restOfPages
    \/ PagesAsCompleted /\ UNCHANGED restOfPages
    \/ SpacesChunkDone /\ UNCHANGED restOfPages
    \/ SpacesLoop /\ UNCHANGED restOfPages
    \/ SpacesParallelEnd /\ UNCHANGED restOfPages
    \/ SpacesTail /\ UNCHANGED restOfPages

SpacesSpec == SpacesInit /\ [][SpacesNext]_vars

\* The records handle_spaces has been given so far, in the order it got them:
\* the answers of the parallel phase in the order the loop received them, then
\* the answers of the sequential loop.
RECURSIVE ParallelReceived(_)
ParallelReceived(n) ==
    IF n = 0 THEN <<>>
    ELSE ParallelReceived(n - 1) \o
         (IF futures[handled[n]].exc THEN <<>> ELSE futures[handled[n]].result)

RECURSIVE TailReceived(_)
TailReceived(n) ==
    IF n = 0 THEN <<>>
    ELSE TailReceived(n - 1) \o
         (IF requests[n].phase = "tail" THEN requests[n].results ELSE <<>>)

Received == ParallelReceived(Len(handled)) \o TailReceived(Len(requests))

\* C8: one invocation of get_api_spaces never yields two records of the same
\* id, whatever the service repeats within an answer, across the answers of the
\* parallel phase or between the two phases; every id it was given is yielded,
\* and the record yielded for an id is the first one received with that id.
C8_NoDuplicateSpaces ==
    LET rec == Received
        ids == [i \in 1..Len(rec) |-> rec[i].id]
    IN /\ \A i, j \in 1..Len(emitted) : emitted[i].id = emitted[j].id => i = j
       /\ {emitted[i].id : i \in 1..Len(emitted)} = Range(ids)
       /\ \A i \in 1..Len(emitted) :
            \E k \in 1..Len(rec) :
               /\ rec[k] = emitted[i]
               /\ \A m \in 1..(k - 1) : ids[m] # emitted[i].id

\* C8's case: an id was repeated within one answer, in two answers of the
\* parallel phase and again in the sequential loop, and was yielded once.
C8_Witness ==
    /\ gpc = "done"
    /\ Len(emitted) = 2
    /\ \E i, j, k \in 1..Len(requests) :
         /\ i # j
         /\ requests[i].phase = "parallel" /\ requests[j].phase = "parallel"
         /\ requests[k].phase = "tail"
         /\ Len(requests[i].results) = 2
         /\ requests[i].results[1].id = 1 /\ requests[i].results[2].id = 1
         /\ \E m \in 1..Len(requests[j].results) : requests[j].results[m].id = 1
         /\ \E m \in 1..Len(requests[k].results) : requests[k].results[m].id = 1

(***************************************************************************)
(* The start offsets one call of get_api_pages or get_api_spaces requests  *)
(***************************************************************************)
\* The chunk size of the call: line 211 for pages and blog posts, line 325
\* for spaces.
ChunkOfCall == IF type = "space" THEN spaces_chunk_size ELSE chunk_size

ParallelRequests == {i \in 1..Len(requests) : requests[i].phase = "parallel"}

\* The multiples of the chunk size below the size hint, and the smallest
\* multiple of the chunk size that is not below it.
MultiplesBelowHint == {m \in 0..size : m < size /\ m % ChunkOfCall = 0}
MultipleAtHint == ((size + ChunkOfCall - 1) \div ChunkOfCall) * ChunkOfCall

\* No offset is requested twice, the parallel phase requests the offsets of
\* the set par and has requested them all when it is over, the sequential
\* loop starts at offset first, and its offsets are strictly increasing.
OffsetsAre(par, first) ==
    /\ \A i, j \in 1..Len(requests) : i # j => requests[i].start # requests[j].start
    /\ {requests[i].start : i \in ParallelRequests} \subseteq par
    /\ gpc \in {"tail", "done", "raised"} =>
         {requests[i].start : i \in ParallelRequests} = par
    /\ \A i \in TailRequests :
         /\ (\A j \in TailRequests : i <= j) => requests[i].start = first
         /\ \A j \in TailRequests : i < j => requests[i].start < requests[j].start

\* C26 as claimed: within one call no start offset is requested twice; the
\* parallel phase requests exactly the multiples of the chunk size below the
\* size hint, the sequential loop starts at the smallest multiple of the chunk
\* size that is >= the size hint, and its offsets are strictly increasing.
C26_Original == OffsetsAre(MultiplesBelowHint, MultipleAtHint)

\* C26, amended: the same, for get_api_spaces and for get_api_pages of pages;
\* get_api_pages of blog posts has no parallel phase and its sequential loop
\* starts at offset 0, whatever the size hint.
C26_OffsetsOnce ==
    IF type = "blogpost" THEN OffsetsAre({}, 0)
    ELSE OffsetsAre(MultiplesBelowHint, MultipleAtHint)

\* C26's case: pages with a size hint of one chunk and a half; the parallel
\* phase requested the offsets 0 and 100, the sequential loop started at 200,
\* got half a chunk and went on at 250.
C26_Witness ==
    /\ type = "page"
    /\ size = 3 * HalfChunk
    /\ gpc = "done"
    /\ {requests[i].start : i \in ParallelRequests} = {0, chunk_size}
    /\ {requests[i].start : i \in TailRequests} =
          {2 * chunk_size, 2 * chunk_size + HalfChunk}

(***************************************************************************)
(* crawl.py: Page.__init__, Space.fetch_pages, Space.root_pages            *)
(***************************************************************************)
\* line 174, pages_with_status over the Pages made of the records recs.
pages_with_status(recs, status) ==
    SelectSeq([i \in 1..Len(recs) |-> i], LAMBDA i : recs[i].status = status)

\* line 181: {p.id: p for p in self.pages if p.id is not None}; a later Page of
\* the same id replaces an earlier one. 0 stands for a missing key.
PagesById(recs, current) ==
    [id \in {recs[current[k]].id : k \in 1..Len(current)} \ {0} |->
        LET ks == {k \in 1..Len(current) : recs[current[k]].id = id}
        IN current[CHOOSE k \in ks : \A m \in ks : m <= k]]

\* line 186: workers = 12 if len(self.pages) > 1000 else 4
FetchWorkers(n) == IF n > 1000 THEN 12 ELSE 4

\* lines 177-178: the null check that guards the fetch.
AlreadyFetchedNever == FALSE
AlreadyFetched == ~all_pages.is_none

\* lines 176-178: fetch_pages is called, for the first time or after an earlier
\* call has ended (returned or raised); it returns at once when all_pages is
\* set.
FetchCall ==
    /\ fpc \in {"ready", "done", "raised"}
    /\ fetch_calls < MaxFetchCalls
    /\ fetch_calls' = fetch_calls + 1
    /\ error' = "none"
    /\ fpc' = IF AlreadyFetched THEN "done" ELSE "begin"
    /\ UNCHANGED <<api_pages, api_blogs, all_pages, pages, blog_posts, pages_by_id,
                   parent, children, no_parent, api_calls>>
    /\ UNCHANGED workVars

\* lines 179-187. The two get_api_pages calls may each end with the error of
\* a failed request of their sequential loop, which leaves fetch_pages at once.
FetchBegin ==
    /\ fpc = "begin"
    /\ \/ /\ error' = "HTTPError"
          /\ fpc' = "raised"
          /\ api_calls' = api_calls + 1
          /\ UNCHANGED <<all_pages, pages, blog_posts, pages_by_id, parent, children>>
          /\ UNCHANGED workVars
       \/ /\ all_pages' = Some(api_pages)
          /\ api_calls' = api_calls + 2
          /\ pages' = Some(pages_with_status(api_pages, "current"))
          /\ pages_by_id' = PagesById(api_pages, pages_with_status(api_pages, "current"))
          /\ parent' = [i \in 1..Len(api_pages) |-> 0]
          /\ children' = [i \in 1..Len(api_pages) |-> <<>>]
          /\ \/ /\ error' = "HTTPError"
                /\ fpc' = "raised"
                /\ UNCHANGED blog_posts
                /\ UNCHANGED workVars
             \/ /\ blog_posts' = Some(api_blogs)
                /\ WorkBeginAll(pages_with_status(api_pages, "current"),
                                FetchWorkers(Len(pages_with_status(api_pages, "current"))))
                /\ fpc' = "linking"
                /\ UNCHANGED error
    /\ UNCHANGED <<api_pages, api_blogs, no_parent, fetch_calls>>

\* lines 190-196, the lookup of the parent of Page p: "none" when it has no
\* parent_id, "hit" when the id is a key of pages_by_id, else "miss" (the
\* KeyError is caught and the message written).
LookupUnguarded(p) ==
    IF api_pages[p].parent_id = 0 THEN "none"
    ELSE IF api_pages[p].parent_id \in DOMAIN pages_by_id THEN "hit" ELSE "raise"
LookupParent(p) ==
    IF api_pages[p].parent_id = 0 THEN "none"
    ELSE IF api_pages[p].parent_id \in DOMAIN pages_by_id THEN "hit" ELSE "miss"

\* line 196, page.parent.children.append(page), with q the parent of p.
AppendChildNot(ch, q, p) == ch
AppendChild(ch, q, p) == [ch EXCEPT ![q] = Append(@, p)]

\* lines 187-196: fetch_page_information of one Page ended, and when it returned
\* the loop body links the Page to its parent.
FetchLoop ==
    \E f \in 1..Len(futures) :
      /\ fpc = "linking"
      /\ api_calls' = api_calls + 1
      /\ \/ /\ WorkDeliver(f, TRUE, <<>>)
            /\ UNCHANGED <<parent, children, no_parent, error, fpc>>
         \/ LET p == future_to_item[f] IN
            /\ WorkDeliver(f, FALSE, <<>>)
            /\ parent' = IF LookupParent(p) = "hit"
                         THEN [parent EXCEPT ![p] = pages_by_id[api_pages[p].parent_id]]
                         ELSE parent
            /\ children' = IF LookupParent(p) = "hit"
                           THEN AppendChild(children,
                                            pages_by_id[api_pages[p].parent_id], p)
                           ELSE children
            /\ no_parent' = IF LookupParent(p) = "miss" THEN no_parent \cup {p}
                            ELSE no_parent
            /\ error' = IF LookupParent(p) = "raise" THEN "KeyError" ELSE error
            /\ fpc' = IF LookupParent(p) = "raise" THEN "raised" ELSE fpc
      /\ UNCHANGED <<api_pages, api_blogs, all_pages, pages, blog_posts, pages_by_id,
                     fetch_calls>>

\* The loop of lines 188-196 is exhausted: fetch_pages returns.
FetchEnd ==
    /\ fpc = "linking"
    /\ WorkEnd
    /\ fpc' = "done"
    /\ UNCHANGED <<api_pages, api_blogs, all_pages, pages, blog_posts, pages_by_id,
                   parent, children, no_parent, error, fetch_calls, api_calls>>

\* line 240, root_pages: the current Pages without a parent.
root_pages == SelectSeq(pages.list, LAMBDA p : parent[p] = 0)

(***************************************************************************)
(* FetchSpec: up to MaxFetchCalls calls of fetch_pages, one after the       *)
(* other, on a fresh Space whose pages have the ids 1, 2, ...; each has no *)
(* parent_id or the id of another page; the last page may instead have an *)
(* id that no page has as its parent_id, and it may be archived.           *)
(***************************************************************************)
\* A parent_id that is the id of no page.
NoSuchId == MaxPages + 96

PageRecords(n) ==
    {recs \in [1..n -> [id : 1..n, status : {"current", "archived"},
                        parent_id : (0..n) \cup {NoSuchId}]] :
        \A i \in 1..n : /\ recs[i].id = i
                        /\ recs[i].parent_id # i
                        /\ recs[i].parent_id = NoSuchId => i = n
                        /\ recs[i].status = "archived" => i = n}

FetchInit ==
    /\ api_pages \in UNION {PageRecords(n) : n \in 0..MaxPages}
    /\ api_blogs = <<[id |-> 50, status |-> "current", parent_id |-> 0]>>
    /\ all_pages = None
    /\ pages = None
    /\ blog_posts = None
    /\ pages_by_id = <<>>
    /\ parent = <<>>
    /\ children = <<>>
    /\ no_parent = {}
    /\ error = "none"
    /\ fpc = "ready"
    /\ fetch_calls = 0
    /\ api_calls = 0
    /\ WorkIdle
    /\ PagesIdle
    /\ RestIdle

FetchNext ==
    \/ FetchCall /\ UNCHANGED restOfFetch
    \/ FetchBegin /\ UNCHANGED restOfFetch
    \/ FetchLoop /\ UNCHANGED restOfFetch
    \/ FetchEnd /\ UNCHANGED restOfFetch

FetchSpec == FetchInit /\ [][FetchNext]_vars

\* The current Pages, and whether the parent_id of current Page p is the id of
\* no current Page (a dangling reference).
CurrentPages == Range(pages.list)
Dangling(p) ==
    /\ api_pages[p].parent_id # 0
    /\ \A q \in CurrentPages : api_pages[q].id # api_pages[p].parent_id

\* C3 as claimed: after fetch_pages has fetched and returned, every current page whose
\* parent_id is the id of a current page has that page as its parent and is
\* one of that page's children, whatever the detail fetches did.
C3_ParentLinked ==
    (fpc = "done" /\ ~blog_posts.is_none) =>
      \A p \in CurrentPages :
        (api_pages[p].parent_id # 0 /\ ~Dangling(p)) =>
           /\ parent[p] \in CurrentPages
           /\ api_pages[parent[p]].id = api_pages[p].parent_id
           /\ p \in Range(children[parent[p]])

\* C4: a current page with a dangling parent_id does not make fetch_pages
\* raise; the page never gets a parent and is never put into a children list,
\* and after fetch_pages has returned root_pages yields it. (When its detail
\* fetch returned, the "No parent for page" message was written for it.)
C4_DanglingIsRoot ==
    /\ error # "KeyError"
    /\ ~pages.is_none =>
         \A p \in CurrentPages :
           Dangling(p) =>
             /\ parent[p] = 0
             /\ \A q \in 1..Len(api_pages) : p \notin Range(children[q])
             /\ fpc = "done" =>
                  /\ p \in Range(root_pages)
                  /\ (p \in no_parent) <=> (\E i \in 1..Len(yielded) : yielded[i].item = p)

\* C4's case, the claim's example: pages 1 (no parent), 2 (parent 1) and 3
\* (parent 99), every detail fetch returned; the roots are 1 and 3, and page 1
\* has the single child 2.
C4_Witness ==
    /\ fpc = "done"
    /\ Len(api_pages) = 3
    /\ \A i \in 1..3 : api_pages[i].status = "current"
    /\ api_pages[1].parent_id = 0
    /\ api_pages[2].parent_id = 1
    /\ api_pages[3].parent_id = NoSuchId
    /\ Len(yielded) = 3
    /\ Range(root_pages) = {1, 3}
    /\ children[1] = <<2>>
    /\ children[2] = <<>> /\ children[3] = <<>>
    /\ no_parent = {3}

\* Page p is in the children list of Page q.
IsChildOf(p, q) == \E i \in 1..Len(children[q]) : children[q][i] = p

RECURSIVE descendants(_)
RECURSIVE DescendantsOfAll(_)
DescendantsOfAll(ps) ==
    IF ps = <<>> THEN 0 ELSE descendants(Head(ps)) + DescendantsOfAll(Tail(ps))
DescendantsWithoutSelf(p) == DescendantsOfAll(children[p])
descendants(p) == 1 + DescendantsOfAll(children[p])

\* The current Page that the parent_id of Page p names (0: none), and the
\* Page reached from p by k such steps.
NamedParent(p) ==
    IF api_pages[p].parent_id \in DOMAIN pages_by_id
    THEN pages_by_id[api_pages[p].parent_id]
    ELSE 0

RECURSIVE UpBy(_, _)
UpBy(p, k) == IF k = 0 \/ p = 0 THEN p ELSE UpBy(NamedParent(p), k - 1)

\* The parent_id references among the current pages contain no cycle.
NoParentCycle == \A p \in CurrentPages : UpBy(p, Len(api_pages)) = 0

\* The Pages reachable from Page r through children.
RECURSIVE ReachableFrom(_)
ReachableFrom(r) == {r} \cup UNION {ReachableFrom(c) : c \in Range(children[r])}

\* C24: when the parent_id references among the current pages contain no
\* cycle, after fetch_pages has returned every current page is reachable
\* through children from exactly one root page, and the descendants() of the
\* root pages add up to the number of current pages.
C24_TreeCoversPages ==
    (fpc = "done" /\ NoParentCycle) =>
      LET roots == root_pages
          reach == [i \in 1..Len(roots) |-> ReachableFrom(roots[i])]
      IN /\ UNION {reach[i] : i \in 1..Len(roots)} = CurrentPages
         /\ \A i, j \in 1..Len(roots) : i # j => reach[i] \cap reach[j] = {}
         /\ DescendantsOfAll(roots) = Len(pages.list)

\* C24's case: pages 2 and 3 both name page 1 as their parent; the detail
\* fetch of page 3 failed, so page 3 is a root beside page 1, and page 1 has
\* the two descendants 1 and 2.
C24_Witness ==
    /\ fpc = "done"
    /\ Len(api_pages) = 3
    /\ \A i \in 1..3 : api_pages[i].status = "current"
    /\ api_pages[1].parent_id = 0
    /\ api_pages[2].parent_id = 1 /\ api_pages[3].parent_id = 1
    /\ {yielded[i].item : i \in 1..Len(yielded)} = {1, 2}
    /\ Range(root_pages) = {1, 3}
    /\ descendants(1) = 2 /\ descendants(3) = 1

\* C25: whenever fetch_pages is not executing (before a call, after it returned
\* or raised), all_pages, pages and blog_posts are all None or all populated.
C25_AllOrNothing ==
    fpc \in {"ready", "done", "raised"} =>
      \/ all_pages.is_none /\ pages.is_none /\ blog_posts.is_none
      \/ ~all_pages.is_none /\ ~pages.is_none /\ ~blog_posts.is_none

\* C13: once a call of fetch_pages has returned, a later call makes no
\* get_api_pages and no fetch_page_information call and leaves all_pages,
\* pages, blog_posts and every Page's parent and children as they are.
C13_FetchOnce ==
    [][(fpc = "done" /\ fetch_calls' = fetch_calls + 1) =>
          /\ fpc' = "done"
          /\ api_calls' = api_calls
          /\ all_pages' = all_pages /\ pages' = pages /\ blog_posts' = blog_posts
          /\ parent' = parent /\ children' = children]_vars

\* C13's case: the first call fetched the pages and linked page 2 to page 1,
\* and a second call has returned.
C13_Witness ==
    /\ fpc = "done"
    /\ fetch_calls = 2
    /\ api_calls = 2 + Len(pages.list)
    /\ Len(api_pages) >= 2
    /\ children[1] = <<2>>
    /\ parent[2] = 1

(***************************************************************************)
(* crawl.py: write_page                                                    *)
(***************************************************************************)
\* sorted(page.children): Page.__lt__ compares scrub_title(title) (lines
\* 115-116), and the sort is stable.
RECURSIVE InsertByTitle(_, _)
InsertByTitle(sorted, p) ==
    IF sorted = <<>> THEN <<p>>
    ELSE IF title_key[p] < title_key[Head(sorted)] THEN <<p>> \o sorted
         ELSE <<Head(sorted)>> \o InsertByTitle(Tail(sorted), p)

RECURSIVE SortedPages(_)
SortedPages(ps) ==
    IF ps = <<>> THEN <<>>
    ELSE InsertByTitle(SortedPages(SubSeq(ps, 1, Len(ps) - 1)), ps[Len(ps)])

\* lines 355-365: this_restricted, and the class the page's html is given.
ThisRestrictedOwnOnly(page, parent_restricted) == restrictions[page]
ThisRestricted(page, parent_restricted) == restrictions[page] \/ parent_restricted

MarkInheritedFirst(page, parent_restricted) ==
    IF parent_restricted THEN "parent_restricted"
    ELSE IF restrictions[page] THEN "restricted" ELSE "none"

MarkOf(page, parent_restricted) ==
    IF restrictions[page] THEN "restricted"
    ELSE IF parent_restricted THEN "parent_restricted" ELSE "none"

\* lines 353-400, a call of write_page up to its loop over the children: the
\* frame of the call, and the call it makes on the writer (start_section for a
\* page with children, write_leaf for one without).
FrameNoSection(page, parent_restricted) ==
    [page |-> page,
     this_restricted |-> restrictions[page] \/ parent_restricted,
     num_restricted |-> IF restrictions[page] \/ parent_restricted THEN 1 ELSE 0,
     section |-> FALSE,
     todo |-> SortedPages(children[page])]

FrameOf(page, parent_restricted) ==
    [page |-> page,
     this_restricted |-> ThisRestricted(page, parent_restricted),
     num_restricted |-> IF ThisRestricted(page, parent_restricted) THEN 1 ELSE 0,
     section |-> children[page] # <<>>,
     todo |-> SortedPages(children[page])]

WriterCall(page, parent_restricted) ==
    [op |-> IF children[page] # <<>> THEN "start_section" ELSE "write_leaf",
     page |-> page,
     mark |-> MarkOf(page, parent_restricted)]

\* The outermost call begins.
RenderCall ==
    /\ rpc = "ready"
    /\ stack' = <<FrameOf(arg_page, arg_parent_restricted)>>
    /\ out' = Append(out, WriterCall(arg_page, arg_parent_restricted))
    /\ rpc' = "writing"
    /\ UNCHANGED <<restrictions, title_key, arg_page, arg_parent_restricted, returned>>
    /\ UNCHANGED treeVars

\* line 397: the call on top of the stack calls write_page for its next child.
RenderChild ==
    /\ rpc = "writing"
    /\ stack[Len(stack)].todo # <<>>
    /\ LET top == stack[Len(stack)]
           child == Head(top.todo)
       IN /\ stack' = Append([stack EXCEPT ![Len(stack)].todo = Tail(top.todo)],
                             FrameOf(child, top.this_restricted))
          /\ out' = Append(out, WriterCall(child, top.this_restricted))
    /\ UNCHANGED <<restrictions, title_key, arg_page, arg_parent_restricted, returned, rpc>>
    /\ UNCHANGED treeVars

\* lines 397-402: the call on top of the stack is through with its children; it
\* ends its section if it started one and returns num_restricted, which its
\* caller adds to its own.
RenderReturn ==
    /\ rpc = "writing"
    /\ stack[Len(stack)].todo = <<>>
    /\ LET top == stack[Len(stack)]
           rest == SubSeq(stack, 1, Len(stack) - 1)
       IN /\ out' = IF top.section
                    THEN Append(out, [op |-> "end_section", page |-> top.page,
                                      mark |-> "none"])
                    ELSE out
          /\ IF rest = <<>>
             THEN /\ stack' = <<>>
                  /\ returned' = top.num_restricted
                  /\ rpc' = "done"
             ELSE /\ stack' = [rest EXCEPT ![Len(rest)].num_restricted =
                                  @ + top.num_restricted]
                  /\ UNCHANGED <<returned, rpc>>
    /\ UNCHANGED <<restrictions, title_key, arg_page, arg_parent_restricted>>
    /\ UNCHANGED treeVars

(***************************************************************************)
(* RenderSpec: write_page called on any page of any tree of up to          *)
(* MaxTreePages pages (page 1 is the root, every other page has a parent   *)
(* of a smaller number), with any pages restricted, with either value of   *)
(* parent_restricted, the titles ascending, descending or all equal.       *)
(***************************************************************************)
\* Page.children for the parent function par: the children in the order they
\* were appended, here by page number.
ChildrenOf(par) ==
    [q \in DOMAIN par |->
        SelectSeq([i \in 1..Len(par) |-> i], LAMBDA i : par[i] = q)]

TreeParents(n) == {par \in [1..n -> 0..n] :
                      /\ par[1] = 0
                      /\ \A i \in 2..n : par[i] \in 1..(i - 1)}

RenderInit ==
    /\ \E n \in 1..MaxTreePages :
         /\ parent \in TreeParents(n)
         /\ children = ChildrenOf(parent)
         /\ restrictions \in [1..n -> BOOLEAN]
         /\ title_key \in {[i \in 1..n |-> i], [i \in 1..n |-> n + 1 - i],
                           [i \in 1..n |-> 1]}
         /\ arg_page \in 1..n
    /\ arg_parent_restricted \in BOOLEAN
    /\ stack = <<>>
    /\ out = <<>>
    /\ returned = -1
    /\ rpc = "ready"
    /\ api_pages = <<>>
    /\ api_blogs = <<>>
    /\ all_pages = None
    /\ pages = None
    /\ blog_posts = None
    /\ pages_by_id = <<>>
    /\ no_parent = {}
    /\ error = "none"
    /\ fpc = "idle"
    /\ fetch_calls = 0
    /\ api_calls = 0
    /\ WorkIdle
    /\ PagesIdle
    /\ RetryIdle
    /\ LateIdle

RenderNext ==
    \/ RenderCall /\ UNCHANGED restOfRender
    \/ RenderChild /\ UNCHANGED restOfRender
    \/ RenderReturn /\ UNCHANGED restOfRender

RenderSpec == RenderInit /\ [][RenderNext]_vars

\* The pages of the subtree of page r (r included), and the pages on the way
\* from page p up to r (p and r included) when p is in that subtree.
RECURSIVE PathUp(_, _)
PathUp(p, r) == IF p = r \/ parent[p] = 0 THEN {p} ELSE {p} \cup PathUp(parent[p], r)

Subtree(r) == {p \in DOMAIN parent : r \in PathUp(p, r)}

\* C5: write_page returns the number of pages of the subtree of its page that
\* carry a restriction of their own or have, in that subtree, an ancestor that
\* does, each counted once; with parent_restricted given as true that is every
\* page of the subtree. Restrictions of pages above the page written do not
\* count.
C5_RestrictedCount ==
    rpc = "done" =>
      returned = Cardinality({p \in Subtree(arg_page) :
                                \/ arg_parent_restricted
                                \/ \E a \in PathUp(p, arg_page) : restrictions[a]})

\* C5's case, the claim's example: a chain of three pages of which only the
\* root is restricted; write_page on the root returns 3.
C5_Witness ==
    /\ rpc = "done"
    /\ parent = <<0, 1, 2>>
    /\ restrictions = <<TRUE, FALSE, FALSE>>
    /\ arg_page = 1
    /\ ~arg_parent_restricted
    /\ returned = 3

\* htmlwriter.py lines 78-85 and 105-116: the div elements a call on the writer
\* opens and closes. SECTION_START opens two and SECTION_END closes two; a leaf
\* opens one and closes it.
DivsOf(op) ==
    CASE op = "start_section" -> [opened |-> 2, closed |-> 0]
      [] op = "end_section" -> [opened |-> 0, closed |-> 2]
      [] op = "write_leaf" -> [opened |-> 1, closed |-> 1]

\* The sections, and the div elements, open after the first n calls of out.
RECURSIVE OpenSections(_)
OpenSections(n) ==
    IF n = 0 THEN 0
    ELSE OpenSections(n - 1)
         + (IF out[n].op = "start_section" THEN 1 ELSE 0)
         - (IF out[n].op = "end_section" THEN 1 ELSE 0)

RECURSIVE OpenDivs(_)
OpenDivs(n) ==
    IF n = 0 THEN 0
    ELSE OpenDivs(n - 1) + DivsOf(out[n].op).opened - DivsOf(out[n].op).closed

CallsOn(p, op) == {i \in 1..Len(out) : out[i].page = p /\ out[i].op = op}

\* The pages write_page has been called for.
Written == {out[i].page : i \in {j \in 1..Len(out) : out[j].op # "end_section"}}

\* C11: the sections write_page opens are balanced. The number of open sections
\* is never below what it was at entry (0 here), nor is the number of open div
\* elements, and both are back to it on return; a page with children gets
\* exactly one start_section, no leaf and, by the return, exactly one
\* end_section after the start; a page without children gets exactly one leaf
\* and no section.
C11_SectionsBalanced ==
    /\ \A n \in 0..Len(out) : OpenSections(n) >= 0 /\ OpenDivs(n) >= 0
    /\ rpc = "done" => OpenSections(Len(out)) = 0 /\ OpenDivs(Len(out)) = 0
    /\ rpc = "done" => Written = Subtree(arg_page)
    /\ \A p \in Written :
         IF children[p] # <<>>
         THEN /\ Cardinality(CallsOn(p, "start_section")) = 1
              /\ CallsOn(p, "write_leaf") = {}
              /\ Cardinality(CallsOn(p, "end_section")) <= 1
              /\ rpc = "done" => Cardinality(CallsOn(p, "end_section")) = 1
              /\ \A i \in CallsOn(p, "start_section"), j \in CallsOn(p, "end_section") :
                    i < j
         ELSE /\ Cardinality(CallsOn(p, "write_leaf")) = 1
              /\ CallsOn(p, "start_section") = {}
              /\ CallsOn(p, "end_section") = {}

\* C11's case: a section in a section around a leaf, all closed on return.
C11_Witness ==
    /\ rpc = "done"
    /\ parent = <<0, 1, 2>>
    /\ arg_page = 1
    /\ [i \in 1..Len(out) |-> out[i].op] =
         <<"start_section", "start_section", "write_leaf", "end_section", "end_section">>

\* The ancestors of page p that write_page went through to get to it.
RenderedAncestors(p) == PathUp(p, arg_page) \ {p}

\* C18: the mark a page is written with. A page with restrictions of its own is
\* marked "restricted"; a page without is marked "parent_restricted" exactly
\* when a page above it in the rendered chain, at any distance, has
\* restrictions of its own (or the outermost call was told its parent is
\* restricted, which no caller in crawl.py does); any other page is unmarked.
C18_MarkPrecedence ==
    \A i \in 1..Len(out) :
      out[i].op # "end_section" =>
        LET p == out[i].page
            above == arg_parent_restricted
                     \/ \E a \in RenderedAncestors(p) : restrictions[a]
        IN /\ out[i].mark = "restricted" <=> restrictions[p]
           /\ out[i].mark = "parent_restricted" <=> (~restrictions[p] /\ above)
           /\ out[i].mark = "none" <=> (~restrictions[p] /\ ~above)

\* C18's case: in a chain of three pages only the first has restrictions, and
\* the third, two levels below, is written as parent_restricted; in the same
\* run the first is written as restricted.
C18_Witness ==
    /\ parent = <<0, 1, 2>>
    /\ restrictions = <<TRUE, FALSE, FALSE>>
    /\ arg_page = 1
    /\ ~arg_parent_restricted
    /\ \E i, j \in 1..Len(out) :
         /\ out[i].page = 1 /\ out[i].mark = "restricted"
         /\ out[j].page = 3 /\ out[j].mark = "parent_restricted"

(***************************************************************************)
(* htmlwriter.py: HtmlOutlineWriter                                        *)
(***************************************************************************)
\* What one write puts on fout: the kind of text and, for the start of a
\* section, the id in it.
Written1(kind) == [kind |-> kind, id |-> -1]

\* line 89 and line 107: itertools.count() and next() on it.
AdvanceNot(c) == c
Advance(c) == c + 1

\* lines 105-108.
start_section ==
    /\ fout' = Append(fout, [kind |-> "SECTION_START", id |-> section_ids])
    /\ section_ids' = Advance(section_ids)

\* lines 110-111.
end_section ==
    /\ fout' = Append(fout, Written1("SECTION_END"))
    /\ UNCHANGED section_ids

\* lines 113-116: three writes.
write_leaf ==
    /\ fout' = fout \o <<Written1("leaf_open"), Written1("html"), Written1("leaf_close")>>
    /\ UNCHANGED section_ids

\* lines 118-119.
write ==
    /\ fout' = Append(fout, Written1("html"))
    /\ UNCHANGED section_ids

(***************************************************************************)
(* WriterSpec: one HtmlOutlineWriter and any sequence of calls of its      *)
(* methods, as long as fewer than MaxWrites writes have followed the head. *)
(***************************************************************************)
\* lines 87-95: the counter is made and the head is written.
WriterInit ==
    /\ section_ids = 0
    /\ fout = <<Written1("HEAD")>>
    /\ EarlyIdle
    /\ PermIdle
    /\ GenIdle
    /\ AdminIdle
    /\ PoolIdle

\* The writer may be called again.
MoreCalls == Len(fout) <= MaxWrites

WriterNext ==
    \/ MoreCalls /\ start_section /\ UNCHANGED restOfWriter
    \/ MoreCalls /\ end_section /\ UNCHANGED restOfWriter
    \/ MoreCalls /\ write_leaf /\ UNCHANGED restOfWriter
    \/ MoreCalls /\ write /\ UNCHANGED restOfWriter

WriterSpec == WriterInit /\ [][WriterNext]_vars

SectionStarts == {i \in 1..Len(fout) : fout[i].kind = "SECTION_START"}

\* C12: of two start_section calls on one writer the later one gets the
\* greater id, whatever calls were made before, between and after them; so no
\* id is used twice.
C12_IdsIncrease ==
    \A i, j \in SectionStarts : i < j => fout[i].id < fout[j].id

\* C12's case: two sections were started with other calls between them.
C12_Witness ==
    \E i, j \in SectionStarts :
      /\ i + 1 < j
      /\ fout[i].id = 0
      /\ fout[j].id = 1

(***************************************************************************)
(* crawl.py: the permission predicates, Space.has_anonymous_read,          *)
(* Space.has_loggedin_read, PERM_SHORTHANDS                                *)
(***************************************************************************)
\* A permission record p of the API, as far as the predicates read it:
\*   has_operation    'operation' in p
\*   operation        p['operation']: [operation, targetType]
\*   anonymousAccess  p['anonymousAccess']: "true", "false", or "absent"
\*   subjects         p['subjects']: whether the key is there, whether it has
\*                    a 'group', and the names of p['subjects']['group']['results']
\* dict.get(key, False) for a key holding a JSON boolean.
GetOrFalse(v) == IF v = "absent" THEN FALSE ELSE v = "true"

\* lines 280-285.
permission_is_read_space(p) ==
    /\ p.has_operation
    /\ p.operation.operation = "read"
    /\ p.operation.targetType = "space"

\* lines 287-291.
AnonymousAnyOperation(p) == GetOrFalse(p.anonymousAccess)
permission_is_anonymous_read(p) ==
    /\ permission_is_read_space(p)
    /\ GetOrFalse(p.anonymousAccess)

\* lines 293-299.
permission_is_loggedin_read(p) ==
    /\ permission_is_read_space(p)
    /\ p.subjects.present /\ p.subjects.has_group
    /\ \E k \in 1..Len(p.subjects.results) : p.subjects.results[k] = "confluence-users"

\* lines 250 and 254: any(p for p in self.permissions if pred(p)); a record
\* that passes either predicate has the key 'operation', so it is not empty
\* and counts as true.
has_anonymous_read ==
    \E i \in 1..Len(permissions) : permission_is_anonymous_read(permissions[i])
has_loggedin_read ==
    \E i \in 1..Len(permissions) : permission_is_loggedin_read(permissions[i])

\* lines 617-622.
PERM_SHORTHANDS(a, l) ==
    CASE ~a /\ ~l -> "Internal"
      [] ~a /\ l -> "Logged-in"
      [] a /\ l -> "Open"
      [] a /\ ~l -> "???"

\* line 535.
PermAnon ==
    /\ ppc = "ready"
    /\ anon' = has_anonymous_read
    /\ ppc' = "anon"
    /\ UNCHANGED <<permissions, logged, summary>>

\* line 536.
PermLogged ==
    /\ ppc = "anon"
    /\ logged' = has_loggedin_read
    /\ ppc' = "logged"
    /\ UNCHANGED <<permissions, anon, summary>>

\* line 539.
PermSummary ==
    /\ ppc = "logged"
    /\ summary' = PERM_SHORTHANDS(anon, logged)
    /\ ppc' = "done"
    /\ UNCHANGED <<permissions, anon, logged>>

(***************************************************************************)
(* PermSpec: the permission columns of the row of a space with any list of *)
(* up to MaxPerms permission records.                                      *)
(***************************************************************************)
Operations ==
    {[operation |-> o, targetType |-> t] :
        o \in {"read", "administer"}, t \in {"space", "page"}}

Subjects ==
    {[present |-> FALSE, has_group |-> FALSE, results |-> <<>>],
     [present |-> TRUE, has_group |-> FALSE, results |-> <<>>]}
    \cup {[present |-> TRUE, has_group |-> TRUE, results |-> names] :
            names \in {<<"confluence-users">>, <<"administrators">>,
                       <<"administrators", "confluence-users">>}}

PermissionRecords ==
    {[has_operation |-> FALSE, operation |-> [operation |-> "", targetType |-> ""],
      anonymousAccess |-> a, subjects |-> sub] :
        a \in {"absent", "false", "true"}, sub \in Subjects}
    \cup {[has_operation |-> TRUE, operation |-> op, anonymousAccess |-> a,
           subjects |-> sub] :
            op \in Operations, a \in {"absent", "false", "true"}, sub \in Subjects}

PermInit ==
    /\ permissions \in SeqsUpTo(PermissionRecords, MaxPerms)
    /\ anon = FALSE
    /\ logged = FALSE
    /\ summary = ""
    /\ ppc = "ready"
    /\ EarlyIdle
    /\ WriterIdle
    /\ GenIdle
    /\ AdminIdle
    /\ PoolIdle

PermNext ==
    \/ PermAnon /\ UNCHANGED restOfPerm
    \/ PermLogged /\ UNCHANGED restOfPerm
    \/ PermSummary /\ UNCHANGED restOfPerm

PermSpec == PermInit /\ [][PermNext]_vars

\* The records that say "read" on target "space".
ReadSpace ==
    {i \in 1..Len(permissions) :
        /\ permissions[i].has_operation
        /\ permissions[i].operation = [operation |-> "read", targetType |-> "space"]}

\* C17: anon is true exactly when some record says read on space and has
\* anonymousAccess true; logged is true exactly when some record says read on
\* space and names the group "confluence-users"; the summary is "Internal"
\* exactly when both are false.
C17_PermissionClasses ==
    ppc = "done" =>
      /\ anon <=> \E i \in ReadSpace : permissions[i].anonymousAccess = "true"
      /\ logged <=> \E i \in ReadSpace :
                       /\ permissions[i].subjects.has_group
                       /\ "confluence-users" \in Range(permissions[i].subjects.results)
      /\ summary = "Internal" <=> (~anon /\ ~logged)

\* C17's case: one record gives anonymous access to administer the space and
\* another lets confluence-users read it; the space is "Logged-in", not open.
C17_Witness ==
    /\ ppc = "done"
    /\ Len(permissions) = 2
    /\ permissions[1].has_operation
    /\ permissions[1].operation.operation = "administer"
    /\ permissions[1].anonymousAccess = "true"
    /\ permissions[2].has_operation
    /\ permissions[2].operation = [operation |-> "read", targetType |-> "space"]
    /\ permissions[2].anonymousAccess = "false"
    /\ permissions[2].subjects.results = <<"administrators", "confluence-users">>
    /\ ~anon /\ logged
    /\ summary = "Logged-in"

(***************************************************************************)
(* crawl.py: main, generate_all_space_pages, generate_space_page           *)
(***************************************************************************)
\* htmlwriter.py line 87: the parameters of HtmlOutlineWriter.__init__ that a
\* call may name; crawl.py lines 418 and 491 name these two. A call that names
\* a parameter the function does not have raises TypeError.
WriterParams == {"fout", "title", "style"}
WriterKeywords == {"stylefile", "title"}
WriterIsMade == WriterKeywords \subseteq WriterParams

\* dict.get(key, 1) of line 458.
SizeOf(sizes, key) == IF key \in DOMAIN sizes THEN sizes[key] ELSE 1

\* line 461: spaces.sort(key=size, reverse=True); the sort is stable, also when
\* reversed.
RECURSIVE InsertBySize(_, _, _)
InsertBySize(sorted, k, sz) ==
    IF sorted = <<>> THEN <<k>>
    ELSE IF sz[k] > sz[Head(sorted)] THEN <<k>> \o sorted
         ELSE <<Head(sorted)>> \o InsertBySize(Tail(sorted), k, sz)

RECURSIVE LargestFirst(_, _)
LargestFirst(ks, sz) ==
    IF ks = <<>> THEN <<>>
    ELSE InsertBySize(LargestFirst(SubSeq(ks, 1, Len(ks) - 1), sz), ks[Len(ks)], sz)

\* lines 186-196: the loop that links the pages runs in the thread that called
\* fetch_pages; fetch_page_information runs in the threads of fetch_pages' pool.
LinkedByWorker(caller) == "inner worker"
LinkingThread(caller) == caller

\* What fetch_pages, when it returns, has written for space key k when called
\* in thread caller.
FetchWrites(k, caller) ==
    (IF counts[k] > 0
     THEN {[space |-> k, what |-> "restrictions", thread |-> "inner worker"]}
     ELSE {})
    \cup (IF has_links[k]
          THEN {[space |-> k, what |-> "links", thread |-> LinkingThread(caller)]}
          ELSE {})

\* lines 449-467, and get_api_spaces, which may raise the HTTPError of a failed
\* request: the size hints are loaded, the spaces made, given their sizes and
\* sorted; with do_pages they are handed to work_in_threads.
GenLoad ==
    /\ gapc = "start"
    /\ space_sizes' = sizes_file
    /\ \/ /\ g_error' = "HTTPError"
          /\ gapc' = "raised"
          /\ UNCHANGED <<g_spaces, space_size>>
          /\ UNCHANGED workVars
       \/ LET keys == [k \in 1..Len(counts) |-> k]
              sz == [k \in 1..Len(counts) |-> SizeOf(sizes_file, k)]
          IN /\ space_size' = sz
             /\ g_spaces' = LargestFirst(keys, sz)
             /\ IF do_pages
                THEN WorkBeginAll(LargestFirst(keys, sz), 10) /\ gapc' = "reading"
                ELSE UNCHANGED workVars /\ gapc' = "persist"
             /\ UNCHANGED g_error
    /\ UNCHANGED <<g_mode, do_pages, counts, has_links, sizes_file, fetched, writes,
                   num_restricteds, persisted, reported>>

\* lines 415-439 in a worker thread of the pool of line 467, and lines 468-469
\* for its pair: fetch_pages raises an HTTPError, or it returns and the writer
\* is made, or not.
GenSpace ==
    \E f \in 1..Len(futures) :
      /\ gapc = "reading"
      /\ LET k == future_to_item[f] IN
         \/ /\ WorkDeliver(f, TRUE, <<>>)
            /\ UNCHANGED <<fetched, writes, num_restricteds>>
         \/ /\ fetched' = fetched \cup {k}
            /\ writes' = writes \cup FetchWrites(k, "outer worker")
            /\ IF WriterIsMade
               THEN /\ WorkDeliver(f, FALSE, <<>>)
                    /\ num_restricteds' = num_restricteds \cup {k}
               ELSE /\ WorkDeliver(f, TRUE, <<>>)
                    /\ UNCHANGED num_restricteds
      /\ UNCHANGED <<g_mode, do_pages, counts, has_links, sizes_file, space_sizes,
                     g_spaces, space_size, persisted, reported, g_error, gapc>>

\* The loop of line 468 is exhausted.
GenReadEnd ==
    /\ gapc = "reading"
    /\ WorkEnd
    /\ gapc' = "persist"
    /\ UNCHANGED <<g_mode, do_pages, counts, has_links, sizes_file, space_sizes,
                   g_spaces, space_size, fetched, writes, num_restricteds, persisted,
                   reported, g_error>>

\* lines 471-472: json.dump(space_sizes, f).
GenPersist ==
    /\ gapc = "persist"
    /\ sizes_file' = space_sizes
    /\ persisted' = TRUE
    /\ gapc' = "index"
    /\ UNCHANGED <<g_mode, do_pages, counts, has_links, space_sizes, g_spaces,
                   space_size, fetched, writes, num_restricteds, reported, g_error>>
    /\ UNCHANGED workVars

\* The keys of the spaces whose row the loop of lines 513-547 writes: with
\* do_pages, the keys below the first one, in key order, that num_restricteds
\* lacks (line 515 raises KeyError for that one).
RowsWritten ==
    {k \in Range(g_spaces) :
        do_pages => \A j \in Range(g_spaces) : j <= k => j \in num_restricteds}

\* lines 474-614: the index and the other reports. Line 491 makes the writer;
\* line 529 puts the count of every space reported into space_sizes.
GenIndex ==
    /\ gapc = "index"
    /\ IF ~WriterIsMade
       THEN /\ g_error' = "TypeError"
            /\ gapc' = "raised"
            /\ UNCHANGED <<space_sizes, reported>>
       ELSE /\ reported' = RowsWritten
            /\ space_sizes' =
                 IF do_pages
                 THEN [k \in DOMAIN space_sizes \cup RowsWritten |->
                          IF k \in RowsWritten THEN counts[k] ELSE space_sizes[k]]
                 ELSE space_sizes
            /\ g_error' = IF RowsWritten = Range(g_spaces) THEN "none" ELSE "KeyError"
            /\ gapc' = IF RowsWritten = Range(g_spaces) THEN "done" ELSE "raised"
    /\ UNCHANGED <<g_mode, do_pages, counts, has_links, sizes_file, g_spaces,
                   space_size, fetched, writes, num_restricteds, persisted>>
    /\ UNCHANGED workVars

\* lines 651-653: main calls generate_space_page for the next key given, in
\* the main thread.
GenKey ==
    /\ gapc = "keys"
    /\ g_spaces # <<>>
    /\ LET k == Head(g_spaces) IN
       \/ /\ g_error' = "HTTPError"
          /\ gapc' = "raised"
          /\ UNCHANGED <<fetched, writes, g_spaces>>
       \/ /\ fetched' = fetched \cup {k}
          /\ writes' = writes \cup FetchWrites(k, "main")
          /\ IF WriterIsMade
             THEN /\ g_spaces' = Tail(g_spaces)
                  /\ gapc' = IF Tail(g_spaces) = <<>> THEN "done" ELSE "keys"
                  /\ UNCHANGED g_error
             ELSE /\ g_error' = "TypeError"
                  /\ gapc' = "raised"
                  /\ UNCHANGED g_spaces
    /\ UNCHANGED <<g_mode, do_pages, counts, has_links, sizes_file, space_sizes,
                   space_size, num_restricteds, persisted, reported>>
    /\ UNCHANGED workVars

(***************************************************************************)
(* GenSpec: one run of main over a wiki of up to MaxSpaces spaces (keys 1, *)
(* 2, ...), with --all (with or without --pages) or with every key given;  *)
(* a space holds no pages or some, linked or not, and space_sizes.json     *)
(* holds a hint for any of the keys, or is missing.                        *)
(***************************************************************************)
\* The dicts space_sizes.json may hold for the keys 1..n.
SizeHints(n) == UNION {[ks -> {2, 5}] : ks \in SUBSET (1..n)}

GenInit ==
    /\ g_mode \in {"all", "keys"}
    /\ do_pages \in BOOLEAN
    /\ g_mode = "keys" => do_pages
    /\ \E n \in 0..MaxSpaces :
         /\ g_mode = "keys" => n > 0
         /\ counts \in [1..n -> {0, 2}]
         /\ has_links \in [1..n -> BOOLEAN]
         /\ sizes_file \in SizeHints(n)
         /\ g_spaces = IF g_mode = "keys" THEN [k \in 1..n |-> k] ELSE <<>>
         /\ space_size = IF g_mode = "keys" THEN [k \in 1..n |-> 1] ELSE <<>>
    /\ \A k \in 1..Len(counts) : has_links[k] => counts[k] > 0
    /\ space_sizes = <<>>
    /\ fetched = {}
    /\ writes = {}
    /\ num_restricteds = {}
    /\ persisted = FALSE
    /\ reported = {}
    /\ g_error = "none"
    /\ gapc = IF g_mode = "keys" THEN "keys" ELSE "start"
    /\ EarlyIdle
    /\ WriterIdle
    /\ PermIdle
    /\ AdminIdle
    /\ PoolIdle

GenNext ==
    \/ GenLoad /\ UNCHANGED restOfGen
    \/ GenSpace /\ UNCHANGED restOfGen
    \/ GenReadEnd /\ UNCHANGED restOfGen
    \/ GenPersist /\ UNCHANGED restOfGen
    \/ GenIndex /\ UNCHANGED restOfGen
    \/ GenKey /\ UNCHANGED restOfGen

GenSpec == GenInit /\ [][GenNext]_vars

\* C14 as claimed: the size hints are brought up to date before they are
\* persisted. Once a run with do_pages has written space_sizes.json, the file
\* holds, for every space whose pages the run has fetched, the number of pages
\* and blog posts it fetched.
C14_HintPersisted ==
    (persisted /\ do_pages) =>
      \A k \in fetched : k \in DOMAIN sizes_file /\ sizes_file[k] = counts[k]

\* C15 as claimed: a run with do_pages in which work_in_threads gave no pair
\* for some space does not raise after the spaces are read.
C15_FewerPairsTolerated ==
    (g_mode = "all" /\ do_pages /\ Range(g_spaces) \ num_restricteds # {}) =>
       g_error \notin {"TypeError", "KeyError"}

LinkWrites == {w \in writes : w.what = "links"}

\* C19 as claimed: the parent and children links are written by the main
\* thread only.
C19_Original == \A w \in LinkWrites : w.thread = "main"

\* C19: the parent and children links of a space's pages are written only by
\* the thread that called fetch_pages for the space, never by a worker of the
\* pool of fetch_pages: the main thread when the space's key was given to
\* main, and with --all a worker of the pool of generate_all_space_pages, one
\* per space.
C19_LinksByCaller ==
    \A w \in LinkWrites :
      /\ w.thread # "inner worker"
      /\ w.thread = IF g_mode = "keys" THEN "main" ELSE "outer worker"
      /\ \A v \in LinkWrites : v.space = w.space => v = w

\* C19's case: with --all the links of two spaces were written, each by a
\* worker of the outer pool, while the restrictions of their pages were
\* written by workers of the pool of fetch_pages.
C19_Witness ==
    /\ g_mode = "all"
    /\ \E v, w \in LinkWrites :
         /\ v.space # w.space
         /\ v.thread = "outer worker" /\ w.thread = "outer worker"
    /\ \E r \in writes : r.what = "restrictions" /\ r.thread = "inner worker"

(***************************************************************************)
(* crawl.py: name_for_permission, Space.admins                             *)
(***************************************************************************)
\* The names of the model, in the order Python's < gives strings (by code
\* point: upper case before lower case).
NameOrder == <<"Chat Notifications", "Zoe", "addon_jira", "administrators",
               "anonymous", "bob">>

\* lines 272-278 (the one name of it the model has), and name.startswith('addon_').
BORING_ADMINS == {"Chat Notifications"}
StartsWithAddon(name) == name \in {"addon_jira"}

\* line 264, the sort key: "" for "administrators", else the name. "" is below
\* every name; a name has the place of NameOrder.
SortKey(name) == IF name = "administrators" THEN 0 ELSE IndexOf(NameOrder, name)

\* lines 301-312. A permission record here: its operation, anonymousAccess, and
\* the name of the first group or, without a group, the first user of its
\* subjects.
name_for_permission(p) ==
    IF p.anonymousAccess THEN "anonymous" ELSE p.subject.name

\* sorted(names, key=SortKey): stable.
RECURSIVE InsertByKey(_, _)
InsertByKey(sorted, name) ==
    IF sorted = <<>> THEN <<name>>
    ELSE IF SortKey(name) < SortKey(Head(sorted)) THEN <<name>> \o sorted
         ELSE <<Head(sorted)>> \o InsertByKey(Tail(sorted), name)

RECURSIVE SortedNames(_)
SortedNames(names) ==
    IF names = <<>> THEN <<>>
    ELSE InsertByKey(SortedNames(SubSeq(names, 1, Len(names) - 1)), names[Len(names)])

\* lines 259-260: the records whose operation is administer on space.
IsSpaceAdmin(p) ==
    /\ p.has_operation
    /\ p.operation = [operation |-> "administer", targetType |-> "space"]

\* lines 256-264.
AdminNames(perms) ==
    LET has_perm == SelectSeq(perms, IsSpaceAdmin)
        names == [i \in 1..Len(has_perm) |-> name_for_permission(has_perm[i])]
        not_addon == SelectSeq(names, LAMBDA n : ~StartsWithAddon(n))
        not_boring == SelectSeq(not_addon, LAMBDA n : n \notin BORING_ADMINS)
    IN SortedNames(not_boring)

AdminsCall ==
    /\ apc = "ready"
    /\ admins' = AdminNames(admin_perms)
    /\ apc' = "done"
    /\ UNCHANGED admin_perms

(***************************************************************************)
(* AdminSpec: admins() of a space with any list of up to MaxAdminPerms     *)
(* permission records, each for anonymous access, a group or a user.       *)
(***************************************************************************)
AdminSubjects ==
    {[kind |-> "group", name |-> n] : n \in {"administrators", "addon_jira"}}
    \cup {[kind |-> "user", name |-> n] : n \in {"Zoe", "bob", "Chat Notifications"}}

AdminRecords ==
    {[has_operation |-> TRUE, operation |-> [operation |-> o, targetType |-> "space"],
      anonymousAccess |-> FALSE, subject |-> sub] :
        o \in {"administer", "read"}, sub \in AdminSubjects}
    \cup {[has_operation |-> TRUE,
           operation |-> [operation |-> "administer", targetType |-> "space"],
           anonymousAccess |-> TRUE, subject |-> [kind |-> "none", name |-> ""]]}
    \cup {[has_operation |-> FALSE, operation |-> [operation |-> "", targetType |-> ""],
           anonymousAccess |-> FALSE, subject |-> [kind |-> "user", name |-> "bob"]]}

AdminInit ==
    /\ admin_perms \in SeqsUpTo(AdminRecords, MaxAdminPerms)
    /\ admins = <<>>
    /\ apc = "ready"
    /\ EarlyIdle
    /\ WriterIdle
    /\ PermIdle
    /\ GenIdle
    /\ PoolIdle

AdminNext ==
    \/ AdminsCall /\ UNCHANGED restOfAdmin

AdminSpec == AdminInit /\ [][AdminNext]_vars

\* The names an administer-space record of the space gives.
HoldersOfAdmin ==
    {name_for_permission(admin_perms[i]) :
        i \in {j \in 1..Len(admin_perms) : IsSpaceAdmin(admin_perms[j])}}

\* All of C21 but "no name twice": the names returned are the holders of the
\* administer-space permission that do not start with "addon_" and are not
\* boring, "administrators" comes first when it is among them, and the others
\* follow in ascending order.
AdminsFilteredAndSorted ==
    /\ Range(admins) = {n \in HoldersOfAdmin : ~StartsWithAddon(n) /\ n \notin BORING_ADMINS}
    /\ "administrators" \in Range(admins) => admins[1] = "administrators"
    /\ \A i, j \in 1..Len(admins) :
         (i < j /\ admins[i] # "administrators" /\ admins[j] # "administrators") =>
            IndexOf(NameOrder, admins[i]) <= IndexOf(NameOrder, admins[j])

\* C21 as claimed: the list admins() returns has no name twice, and is
\* filtered and sorted as above.
C21_AdminsList ==
    apc = "done" =>
      /\ \A i, j \in 1..Len(admins) : i # j => admins[i] # admins[j]
      /\ AdminsFilteredAndSorted

\* What holds of admins(): the list is filtered and sorted, and a name is in
\* it once for every administer-space record that gives it.
AdminsKeepsRepeats ==
    apc = "done" =>
      /\ AdminsFilteredAndSorted
      /\ \A n \in Range(admins) :
           Cardinality({i \in 1..Len(admins) : admins[i] = n}) =
           Cardinality({j \in 1..Len(admin_perms) :
                           /\ IsSpaceAdmin(admin_perms[j])
                           /\ name_for_permission(admin_perms[j]) = n})

(***************************************************************************)
(* PoolSpec: the worker count of the pool Space.get_api_pages makes for    *)
(* its parallel phase, for size hints of 1..MaxPoolChunks chunks.          *)
(***************************************************************************)
PoolHints == {h * chunk_size : h \in 1..MaxPoolChunks}

\* lines 219-222 for one size hint not tried yet: the parallel phase runs when
\* there are starts, with a pool of (size // 300) + 1 workers.
PoolCall ==
    \E sz \in PoolHints \ DOMAIN pools :
        /\ RangeList(sz, chunk_size) # <<>>
        /\ pools' = [h \in DOMAIN pools \cup {sz} |->
                        IF h = sz THEN PagesWorkers(sz) ELSE pools[h]]

PoolInit ==
    /\ pools = <<>>
    /\ EarlyIdle
    /\ WriterIdle
    /\ PermIdle
    /\ GenIdle
    /\ AdminIdle

PoolNext ==
    \/ PoolCall /\ UNCHANGED restOfPool

PoolSpec == PoolInit /\ [][PoolNext]_vars

\* The worker count grows with the size hint: a larger hint never gets fewer
\* workers.
WorkersGrow ==
    \A a, b \in DOMAIN pools : a <= b => pools[a] <= pools[b]

\* C22: the worker count grows with the size hint and there is a constant that
\* the worker count of no size hint exceeds.
C22_WorkersBounded ==
    /\ WorkersGrow
    /\ \E cap \in 1..MaxPoolCap : \A h \in DOMAIN pools : pools[h] <= cap

(***************************************************************************)
(* crawl.py: Page.fetch_page_information                                   *)
(***************************************************************************)
\* line 124: range(3).
num_tries == 3

\* What confluence.get_all_restrictions_for_content can do: raise an HTTPError
\* (with the status of the response), raise an error of another kind (the
\* connection failed), or return the restrictions.
HttpStatuses == {500, 503}

RestrictionAnswers ==
    {[kind |-> "http", status |-> st, groups |-> <<>>, users |-> <<>>] :
        st \in HttpStatuses}
    \cup {[kind |-> "other", status |-> 0, groups |-> <<>>, users |-> <<>>]}
    \cup {[kind |-> "ok", status |-> 200, groups |-> g, users |-> u] :
            g \in {<<>>, <<"g">>}, u \in {<<>>, <<"u">>}}

\* get_visits.py: get_visits returns None (the status is not 200) or the list
\* of the weeks; it does not raise for a status. Here: the totals of the weeks.
VisitAnswers == {None, Some(<<>>), Some(<<2, 3>>)}

RECURSIVE SumOf(_)
SumOf(totals) == IF totals = <<>> THEN 0 ELSE Head(totals) + SumOf(Tail(totals))

\* lines 127-129: the error the loop keeps when a request fails.
FirstError(error_, err) == IF error_ = 0 THEN err ELSE error_
LastError(error_, err) == err

\* lines 119-123: a page without an id asks nothing.
QCall ==
    /\ qpc = "ready"
    /\ qpc' = IF page_id = 0 THEN "done" ELSE "requesting"
    /\ qerror' = 0
    /\ retry' = 0
    /\ UNCHANGED <<page_id, tries, page_restrictions, has_token, page_visits>>

\* lines 124-133: one turn of the loop. An HTTPError is kept and the loop goes
\* on, and when that was the last turn the error kept is raised, through
\* report_http_errors, which reports it and raises it again; an error of
\* another kind leaves the method at once; an answer ends the loop.
QRequest ==
    /\ qpc = "requesting"
    /\ \E ans \in RestrictionAnswers :
         /\ tries' = Append(tries, ans)
         /\ CASE ans.kind = "http" ->
                   /\ qerror' = LastError(qerror, ans.status)
                   /\ retry' = retry + 1
                   /\ qpc' = IF retry + 1 = num_tries THEN "raised" ELSE "requesting"
              [] ans.kind = "other" ->
                   /\ qpc' = "raised_other"
                   /\ UNCHANGED <<qerror, retry>>
              [] ans.kind = "ok" ->
                   /\ qpc' = "answered"
                   /\ UNCHANGED <<qerror, retry>>
    /\ UNCHANGED <<page_id, page_restrictions, has_token, page_visits>>

\* lines 134-143: the restrictions are kept when there are any, and the visits
\* are asked for when there is a session token.
QFinish ==
    /\ qpc = "answered"
    /\ LET ans == tries[Len(tries)]
       IN page_restrictions' =
            IF ans.groups # <<>> \/ ans.users # <<>>
            THEN [is_none |-> FALSE, groups |-> ans.groups, users |-> ans.users]
            ELSE page_restrictions
    /\ IF has_token
       THEN \E visits \in VisitAnswers :
              page_visits' = IF ~visits.is_none /\ visits.list # <<>>
                             THEN SumOf(visits.list)
                             ELSE page_visits
       ELSE UNCHANGED page_visits
    /\ qpc' = "done"
    /\ UNCHANGED <<page_id, retry, tries, has_token, qerror>>

(***************************************************************************)
(* RetrySpec: fetch_page_information on one new page, with or without an   *)
(* id, with or without a session token, for every way the requests can go. *)
(***************************************************************************)
RetryInit ==
    /\ page_id \in {0, 1}
    /\ has_token \in BOOLEAN
    /\ retry = 0
    /\ tries = <<>>
    /\ page_restrictions = NoRestrictions
    /\ page_visits = -1
    /\ qerror = 0
    /\ qpc = "ready"
    /\ WorkIdle
    /\ PagesIdle
    /\ FetchIdle
    /\ RenderIdle
    /\ LateIdle

RetryNext ==
    \/ QCall /\ UNCHANGED restOfRetry
    \/ QRequest /\ UNCHANGED restOfRetry
    \/ QFinish /\ UNCHANGED restOfRetry

RetrySpec == RetryInit /\ [][RetryNext]_vars

AllHttpErrors == \A i \in 1..Len(tries) : tries[i].kind = "http"

\* C6: fetch_page_information makes at most 3 restriction requests; it makes
\* none after a request that succeeded, and then no error leaves the method;
\* an HTTP error leaves it exactly when 3 requests in a row failed with an
\* HTTP error, it is the error of the last of them, and the page's
\* restrictions are then still None.
C6_RetryThenRaise ==
    /\ Len(tries) <= num_tries
    /\ \A i \in 1..(Len(tries) - 1) : tries[i].kind = "http"
    /\ (tries # <<>> /\ tries[Len(tries)].kind = "ok") =>
          qpc \in {"answered", "done"}
    /\ qpc = "raised" <=> (Len(tries) = num_tries /\ AllHttpErrors)
    /\ qpc = "raised" =>
          /\ qerror = tries[num_tries].status
          /\ page_restrictions = NoRestrictions

\* C6's case: three requests failed, the first and the last with different
\* statuses, and the error has left the method.
C6_Witness ==
    /\ qpc = "raised"
    /\ Len(tries) = 3
    /\ tries[1].status # tries[3].status

(***************************************************************************)
(* WorkSpec: work_in_threads alone, over every short item list, with a fn  *)
(* that may raise for any item. The two item values are interchangeable,   *)
(* so the lists that start with the second one are left out.               *)
(***************************************************************************)
ItemValues == {"a", "b"}

\* The per-item function of WorkSpec: what fn(item) returns when it returns.
Fn(item) == <<"fn", item>>

WorkInit ==
    /\ seq \in {s \in SeqsUpTo(ItemValues, MaxItems) : s = <<>> \/ s[1] = "a"}
    /\ max_workers \in 1..MaxWorkers
    /\ future_to_item = <<>>
    /\ futures = <<>>
    /\ num_threads = 0
    /\ work_queue = <<>>
    /\ finished_first = {}
    /\ waiter = <<>>
    /\ completed = <<>>
    /\ handled = <<>>
    /\ yielded = <<>>
    /\ messages = {}
    /\ wpc = "submit"
    /\ PagesIdle
    /\ FetchIdle
    /\ RestIdle

WorkFinish == \E f \in Running, raised \in BOOLEAN :
                 FinishWork(f, raised, Fn(future_to_item[f]))

WorkLoop == \E f \in NextCompleted : LoopFuture(f)

WorkNext ==
    \/ Submit /\ UNCHANGED restOfWork
    \/ StartWork /\ UNCHANGED restOfWork
    \/ WorkFinish /\ UNCHANGED restOfWork
    \/ AsCompleted /\ UNCHANGED restOfWork
    \/ WorkLoop /\ UNCHANGED restOfWork
    \/ WorkEnd /\ UNCHANGED restOfWork
    \/ WorkStop /\ UNCHANGED restOfWork
    \/ WorkShutdown /\ UNCHANGED restOfWork

WorkSpec == WorkInit /\ [][WorkNext]_vars

\* WorkSpec with the scheduling the program has: the generator's body runs up
\* to its first yield, a worker thread that can take an item takes it, fn
\* comes to an end, and shutdown returns when it can. Nothing makes the
\* consumer ask for the next pair.
WorkFairSpec ==
    /\ WorkSpec
    /\ WF_vars(Submit /\ UNCHANGED restOfWork)
    /\ WF_vars(AsCompleted /\ UNCHANGED restOfWork)
    /\ WF_vars(StartWork /\ UNCHANGED restOfWork)
    /\ WF_vars(WorkFinish /\ UNCHANGED restOfWork)
    /\ WF_vars(WorkShutdown /\ UNCHANGED restOfWork)

\* The bag of the pairs (item, fn(item)) of the first n items whose function
\* returned.
RECURSIVE ReturnedPairs(_)
ReturnedPairs(n) ==
    IF n = 0 THEN EmptyBag
    ELSE ReturnedPairs(n - 1) (+)
         (IF futures[n].exc THEN EmptyBag ELSE SetToBag({<<seq[n], Fn(seq[n])>>}))

\* C1: work_in_threads isolates per-item failures. No exception escapes the
\* iteration, no pair is ever yielded for an item whose function raised, and
\* once the iteration has ended the pairs yielded are, counted with their
\* multiplicity, exactly the pairs (item, fn(item)) of the items whose function
\* returned: every one of them once, and nothing else.
C1_FailuresIsolated ==
    /\ wpc # "raised"
    /\ \A i \in 1..Len(yielded) : ~futures[yielded[i].fut].exc
    /\ wpc = "done" =>
         /\ \A f \in 1..Len(seq) :
              Cardinality({i \in 1..Len(yielded) : yielded[i].fut = f})
                = IF futures[f].exc THEN 0 ELSE 1
         /\ BagOfSeq([i \in 1..Len(yielded) |-> <<yielded[i].item, yielded[i].result>>])
              = ReturnedPairs(Len(seq))

\* C1's case: three items, the function of the second raised and the other two
\* returned; the iteration has ended with exactly two pairs.
C1_Witness ==
    /\ wpc = "done"
    /\ Len(seq) = 3
    /\ futures[2].exc /\ ~futures[1].exc /\ ~futures[3].exc
    /\ Len(yielded) = 2
    /\ messages = {2}

\* C9: at every moment at most max_workers invocations of the per-item
\* function are executing.
C9_AtMostMaxWorkers == Cardinality(Running) <= max_workers

\* C9's case: the pool is full (max_workers = 2 invocations run) while a
\* further item waits in the queue.
C9_Witness ==
    /\ max_workers = 2
    /\ Cardinality(Running) = 2
    /\ work_queue # <<>>

\* C10 as claimed: the pairs are yielded in the order in which their
\* invocations completed.
C10_Original ==
    \A i, j \in 1..Len(yielded) :
        i < j => IndexOf(completed, yielded[i].fut) < IndexOf(completed, yielded[j].fut)

\* C10, amended: a pair is never yielded before its invocation has completed;
\* the invocations that had completed already when as_completed was called are
\* yielded first (in no particular order), and those that complete later are
\* yielded after them, in the order in which they completed.
C10_CompletionOrder ==
    /\ \A i \in 1..Len(yielded) : IndexOf(completed, yielded[i].fut) > 0
    /\ \A i, j \in 1..Len(yielded) :
         i < j =>
           /\ yielded[j].fut \in finished_first => yielded[i].fut \in finished_first
           /\ (yielded[i].fut \notin finished_first /\ yielded[j].fut \notin finished_first)
                => IndexOf(completed, yielded[i].fut) < IndexOf(completed, yielded[j].fut)

\* C10's case: two pairs yielded against submission order, both for invocations
\* that completed after as_completed was called.
C10_Witness ==
    /\ Len(yielded) >= 2
    /\ yielded[1].fut > yielded[2].fut
    /\ yielded[1].fut \notin finished_first
    /\ yielded[2].fut \notin finished_first

\* C20: work_in_threads cancels nothing. Every item has been submitted when
\* the first pair is yielded, and in every behaviour there comes a point from
\* which on every item is submitted and every invocation has come to its end,
\* also when the consumer has stopped iterating and when other invocations
\* raised.
C20_NoCancellation ==
    /\ [](yielded # <<>> => Len(future_to_item) = Len(seq))
    /\ <>[](Len(future_to_item) = Len(seq) /\ Finished = 1..Len(seq))

\* C20's case: the consumer stopped after the first pair, and an invocation
\* that had not come to its end by then (it is neither in as_completed's
\* snapshot nor in its waiter) has finished all the same, as has one that raised.
C20_Witness ==
    /\ wpc = "closed"
    /\ Len(handled) = 1
    /\ \E f, g \in Finished :
         /\ f \notin finished_first \cup Range(waiter) \cup Range(handled)
         /\ futures[g].exc

====
